---- MODULE Spec2Model ----
(***************************************************************************)
(* Tic-tac-toe engines of righthandabacus/tttai: the list board and the    *)
(* alpha-beta search of alphabeta.py, the bit-vector board, the killer     *)
(* table and the search of killer.py, and the rollout evaluator of mcts.py.*)
(***************************************************************************)
EXTENDS Integers, Sequences, FiniteSets, TLC

(***************************************************************************)
(* Python values                                                           *)
(***************************************************************************)
\* Python's None, as an integer that is no board, mask, side or score: boards
\* and masks are not negative, and a score of heuristic_evaluate is a sum of
\* eight terms of at most 100 each way.
None == -9999
\* an exception leaving a call (AssertionError, ValueError): no value either
Raise == -9998
\* float("inf"): larger than every score; -Inf is -float("inf").
Inf == 1000

max(a, b) == IF a >= b THEN a ELSE b
min(a, b) == IF a <= b THEN a ELSE b

(***************************************************************************)
(* Integer bit operations (Python's <<, >>, &, | and gmpy.popcount)        *)
(***************************************************************************)
\* a << n and a >> n
Shl(a, n) == a * 2^n
Shr(a, n) == a \div 2^n

\* a & b and a | b, bit by bit
RECURSIVE andBits(_, _)
andBits(a, b) ==
  IF a = 0 \/ b = 0 THEN 0
  ELSE (a % 2) * (b % 2) + 2 * andBits(a \div 2, b \div 2)

RECURSIVE orBits(_, _)
orBits(a, b) ==
  IF a = 0 THEN b
  ELSE IF b = 0 THEN a
  ELSE max(a % 2, b % 2) + 2 * orBits(a \div 2, b \div 2)

\* the same on 6-bit digits, tabulated
And6 == [a \in 0..63 |-> [b \in 0..63 |-> andBits(a, b)]]
Or6 == [a \in 0..63 |-> [b \in 0..63 |-> orBits(a, b)]]

\* a & b and a | b on non-negative integers, six bits at a time
RECURSIVE BitAnd(_, _)
BitAnd(a, b) ==
  IF a = 0 \/ b = 0 THEN 0
  ELSE And6[a % 64][b % 64] + 64 * BitAnd(a \div 64, b \div 64)

RECURSIVE BitOr(_, _)
BitOr(a, b) ==
  IF a = 0 THEN b
  ELSE IF b = 0 THEN a
  ELSE Or6[a % 64][b % 64] + 64 * BitOr(a \div 64, b \div 64)

\* bit k of a, as a Boolean: (a & (1 << k)) != 0
BitTest(a, k) == (a \div 2^k) % 2 = 1

RECURSIVE popcountBits(_)
popcountBits(a) == IF a = 0 THEN 0 ELSE (a % 2) + popcountBits(a \div 2)

\* gmpy.popcount on 9-bit values, tabulated
Pop9 == [a \in 0..511 |-> popcountBits(a)]
popcount(a) == Pop9[a % 512] + Pop9[(a \div 512) % 512] + popcountBits(a \div 262144)

(***************************************************************************)
(* killer.py / mcts.py: the bit-vector board                               *)
(***************************************************************************)
\* PLAYERS = [1, -1]; index 0 is PLAYERS[False], index 1 is PLAYERS[True]
PLAYERS == <<1, -1>>
PlayerSet == {PLAYERS[i] : i \in 1..2}

\* POSITIONS = [(r,c) for r in range(3) for c in range(3)]
POSITIONS == [i \in 1..9 |-> <<(i - 1) \div 3, (i - 1) % 3>>]

\* Board.mask(row, col, who)
mask(row, col, who) ==
  LET offset == 3 * (2 - row) + (2 - col)
  IN  Shl(1, IF who = 1 THEN offset + 9 ELSE offset)

\* A variant of check that looks only at the half of the placing side
check_OwnHalfOnly(board, row, col, player) ==
  LET offset == 3 * (2 - row) + (2 - col)
  IN  IF BitTest(board, IF player = 1 THEN offset + 9 ELSE offset)
        THEN None
        ELSE mask(row, col, player)

\* Board.check(row, col, player): the player's mask of an empty cell, or None.
\* mask and othermask are the two single bits of the cell, so
\* (mask | othermask) & self.board is non-zero iff the board has one of them.
check(board, row, col, player) ==
  LET offset == 3 * (2 - row) + (2 - col)
  IN  IF BitTest(board, offset) \/ BitTest(board, offset + 9)
        THEN None
        ELSE mask(row, col, player)

\* Board.place(mask): the second form, which skips the check
placeMask(board, m) == BitOr(board, m)

\* Board.place(row, col, player) of killer.py: the first form
place(board, row, col, player) ==
  LET m == check(board, row, col, player)
  IN  IF m = None THEN None ELSE BitOr(board, m)

\* A variant of the mcts.py place without checkmask
placeMcts_NoCheckmask(board, row, col, what) ==
  LET m == mask(row, col, what)
  IN  IF BitAnd(m, board) # 0 THEN None ELSE BitOr(board, m)

\* Board.place(row, col, what) of mcts.py
placeMcts(board, row, col, what) ==
  LET m         == mask(row, col, what)
      checkmask == mask(row, col, -what)
  IN  IF BitAnd(BitOr(m, checkmask), board) # 0 THEN None ELSE BitOr(board, m)

\* Board.spaces()
spaces(board) == 9 - popcount(board)

\* A variant of Board.masks without the two diagonals
masks_NoDiagonals == << 7, 56, 448, 73, 146, 292 >>

\* Board.masks: rows, columns, diagonals, as 9-bit values
masks == << 7, 56, 448, 73, 146, 292, 273, 84 >>

\* The first index i of masks with half & masks[i] == masks[i], or
\* Len(masks) + 1 when the 9-bit half covers no line; tabulated over the halves.
RECURSIVE firstLine(_, _)
firstLine(half, i) ==
  IF i > Len(masks) THEN i
  ELSE IF BitAnd(half, masks[i]) = masks[i] THEN i
  ELSE firstLine(half, i + 1)

FirstLine9 == [half \in 0..511 |-> firstLine(half, 1)]

\* Board.won(): the loop returns at the first mask either half covers, the
\* minimizer (low half) tested before the maximizer (board >> 9) on each mask
won(board) ==
  LET o == FirstLine9[board % 512]
      x == FirstLine9[Shr(board, 9) % 512]
  IN  IF o > Len(masks) /\ x > Len(masks) THEN None
      ELSE IF o <= x THEN -1
      ELSE 1

\* A variant of simple_evaluate that tests for a full board before a winner
simple_evaluate_FullFirst(board) ==
  LET winner == won(board)
  IN  IF spaces(board) = 0 THEN 0
      ELSE IF winner = 1 THEN 10
      ELSE IF winner = -1 THEN -10
      ELSE None

\* simple_evaluate(board) of killer.py and mcts.py
simple_evaluate(board) ==
  LET winner == won(board)
  IN  IF winner = 1 THEN 10
      ELSE IF winner = -1 THEN -10
      ELSE IF spaces(board) = 0 THEN 0
      ELSE None

\* A variant of evaluate that scores a drawn board as a maximizer win
evaluate_DrawAsWin(board) ==
  IF simple_evaluate(board) = 0 THEN 10 ELSE simple_evaluate(board)

\* evaluate = simple_evaluate (killer.py:131)
evaluate(board) == simple_evaluate(board)

(***************************************************************************)
(* killer.py: the killer table and the alpha-beta search                   *)
(***************************************************************************)
\* A variant of the push without popleft
pushKiller_NoPopleft(K, m) == Append(K, m)

\* KILLERS.append(mask); if len(KILLERS) > 4: KILLERS.popleft()
KillerCapacity == 4
pushKiller(K, m) ==
  LET K1 == Append(K, m)
  IN  IF Len(K1) > KillerCapacity THEN Tail(K1) ELSE K1

InKillers(K, m) == \E i \in 1..Len(K) : K[i] = m

\* masks = filter(None, [board.check(r, c, player) for r,c in POSITIONS])
\* children = [(mask, board.place(mask)) for mask in masks]
childrenOf(board, player) ==
  LET all == [i \in 1..9 |-> check(board, POSITIONS[i][1], POSITIONS[i][2], player)]
      ms  == SelectSeq(all, LAMBDA m : m # None)
  IN  [i \in 1..Len(ms) |-> [mask |-> ms[i], child |-> placeMask(board, ms[i])]]

\* A variant of the killer sort with reverse=True
killerSorted_Reversed(children, K) ==
  SelectSeq(children, LAMBDA x : ~InKillers(K, x.mask))
    \o SelectSeq(children, LAMBDA x : InKillers(K, x.mask))

\* A variant of the killer sort that keeps only the killers when there are any
killerSorted_KillersOnly(children, K) ==
  LET killers == SelectSeq(children, LAMBDA x : InKillers(K, x.mask))
  IN  IF killers # <<>> THEN killers ELSE children

\* sorted(children, key=lambda x: x[0] not in KILLERS): a stable sort on a
\* Boolean key, False (a killer) before True, each group in its old order
killerSorted(children, K) ==
  SelectSeq(children, LAMBDA x : InKillers(K, x.mask))
    \o SelectSeq(children, LAMBDA x : ~InKillers(K, x.mask))

\* alphabeta(board, player, alpha, beta) of killer.py.  K is KILLERS when the
\* call starts; the result carries the value returned and KILLERS afterwards.
\* opt.killer and opt.heuristic are the two switches of lines 178 and 181; the
\* source runs with killer on and heuristic off.  With the heuristic switch on,
\* line 180 applies heuristic_evaluate to a (mask, board) tuple, which raises
\* AttributeError at the first non-terminal node.
RECURSIVE alphabetaK(_, _, _, _, _, _)
RECURSIVE maxLoopK(_, _, _, _, _, _, _, _)
RECURSIVE minLoopK(_, _, _, _, _, _, _, _)

\* A variant of the minimizer's loop that breaks after its first child
minLoopK_BreaksAtOnce(children, i, value, alpha, beta, K, opponent, opt) ==
  IF i > Len(children) THEN [value |-> value, killers |-> K, raised |-> FALSE]
  ELSE LET r  == alphabetaK(children[i].child, opponent, alpha, beta, K, opt)
           v  == min(value, r.value)
       IN  IF r.raised THEN r
           ELSE [value |-> v, killers |-> r.killers, raised |-> FALSE]

\* A variant of the maximizer's loop that breaks after its first child
maxLoopK_BreaksAtOnce(children, i, value, alpha, beta, K, opponent, opt) ==
  IF i > Len(children) THEN [value |-> value, killers |-> K, raised |-> FALSE]
  ELSE LET r  == alphabetaK(children[i].child, opponent, alpha, beta, K, opt)
           v  == max(value, r.value)
       IN  IF r.raised THEN r
           ELSE [value |-> v, killers |-> pushKiller(r.killers, children[i].mask),
                 raised |-> FALSE]

maxLoopK(children, i, value, alpha, beta, K, opponent, opt) ==
  IF i > Len(children) THEN [value |-> value, killers |-> K, raised |-> FALSE]
  ELSE LET r  == alphabetaK(children[i].child, opponent, alpha, beta, K, opt)
           v  == max(value, r.value)
           a  == max(alpha, v)
       IN  IF r.raised THEN r
           ELSE IF a >= beta
             THEN [value |-> v, killers |-> pushKiller(r.killers, children[i].mask),
                   raised |-> FALSE]
             ELSE maxLoopK(children, i + 1, v, a, beta, r.killers, opponent, opt)

minLoopK(children, i, value, alpha, beta, K, opponent, opt) ==
  IF i > Len(children) THEN [value |-> value, killers |-> K, raised |-> FALSE]
  ELSE LET r  == alphabetaK(children[i].child, opponent, alpha, beta, K, opt)
           v  == min(value, r.value)
           b  == min(beta, v)
       IN  IF r.raised THEN r
           ELSE IF alpha >= b
             THEN [value |-> v, killers |-> r.killers, raised |-> FALSE]
             ELSE minLoopK(children, i + 1, v, alpha, b, r.killers, opponent, opt)

alphabetaK(board, player, alpha, beta, K, opt) ==
  LET opponent == -player
      value    == evaluate(board)
  IN  IF value # None THEN [value |-> value, killers |-> K, raised |-> FALSE]
      ELSE IF opt.heuristic THEN [value |-> None, killers |-> K, raised |-> TRUE]
      ELSE LET children == childrenOf(board, player)
               ordered  == IF opt.killer THEN killerSorted(children, K) ELSE children
           IN  IF player = 1
                 THEN maxLoopK(ordered, 1, -Inf, alpha, beta, K, opponent, opt)
                 ELSE minLoopK(ordered, 1, Inf, alpha, beta, K, opponent, opt)

(***************************************************************************)
(* alphabeta.py: the list board, its evaluators and its two searches       *)
(***************************************************************************)
\* PLAYERS = ["X", "O"]
PLAYERSL == <<"X", "O">>
\* a missing symbol (won() falling off its end) and a missing board
\* (place() falling off its end): Python's None at those two types
NoSymbol == "None"
NoBoard == <<>>

\* Board(): [[' '] * 3 for _ in range(3)]; rows and columns are 1..3 here
EmptyL == << <<" ", " ", " ">>, <<" ", " ", " ">>, <<" ", " ", " ">> >>

\* Board.place(row, col, player), row and col in 0..2
placeL(b, row, col, player) ==
  IF b[row + 1][col + 1] = " "
    THEN [b EXCEPT ![row + 1][col + 1] = player]
    ELSE NoBoard

\* Board.spaces()
spacesL(b) == Cardinality({rc \in (1..3) \X (1..3) : b[rc[1]][rc[2]] = " "})

\* Board.won(): rows, then columns, then the two diagonals
\* the first element of a non-empty set of integers
First(S) == CHOOSE i \in S : \A j \in S : i <= j

wonL(b) ==
  LET rows == {r \in 1..3 : b[r][1] # " " /\ \A c \in 1..3 : b[r][c] = b[r][1]}
      cols == {n \in 1..3 : b[1][n] # " " /\ \A i \in 1..3 : b[i][n] = b[1][n]}
  IN  IF rows # {} THEN b[First(rows)][1]
      ELSE IF cols # {} THEN b[1][First(cols)]
      ELSE IF b[1][1] # " " /\ \A n \in 1..3 : b[n][n] = b[1][1] THEN b[1][1]
      ELSE IF b[1][3] # " " /\ \A n \in 1..3 : b[n][4 - n] = b[1][3] THEN b[1][3]
      ELSE NoSymbol

\* simple_evaluate(board) of alphabeta.py
simple_evaluateL(b) ==
  LET winner == wonL(b)
  IN  IF winner = "X" THEN 10
      ELSE IF winner = "O" THEN -10
      ELSE IF spacesL(b) = 0 THEN 0
      ELSE None

\* int(10 ** (n - 1)) for n in 0..3
pow10m1(n) == IF n = 0 THEN 0 ELSE 10 ^ (n - 1)

\* heuristic_evaluate(board) of alphabeta.py: the two diagonals, the three
\* horizontals, the three verticals, each as its three cells
heuristicRows(b) ==
  << <<b[1][1], b[2][2], b[3][3]>>, <<b[1][3], b[2][2], b[3][1]>>,
     b[1], b[2], b[3],
     <<b[1][1], b[2][1], b[3][1]>>, <<b[1][2], b[2][2], b[3][2]>>,
     <<b[1][3], b[2][3], b[3][3]>> >>

rowScoreL(row) ==
  LET countx == Cardinality({i \in 1..3 : row[i] = "X"})
      counto == Cardinality({i \in 1..3 : row[i] = "O"})
  IN  IF countx = 0 THEN 0 - pow10m1(counto)
      ELSE IF counto = 0 THEN pow10m1(countx)
      ELSE 0

RECURSIVE sumScoresL(_, _)
sumScoresL(rows, i) ==
  IF i > Len(rows) THEN 0 ELSE rowScoreL(rows[i]) + sumScoresL(rows, i + 1)

heuristic_evaluateL(b) == sumScoresL(heuristicRows(b), 1)

\* evaluate = simple_evaluate (alphabeta.py:87)
evaluateL(b) == simple_evaluateL(b)

\* filter(None, [board.place(r, c, player) for r in range(3) for c in range(3)])
childrenL(b, player) ==
  SelectSeq([i \in 1..9 |-> placeL(b, (i - 1) \div 3, (i - 1) % 3, player)],
            LAMBDA nb : nb # NoBoard)

\* sorted(children, key=heuristic_evaluate, reverse=True): stable, so equal
\* scores keep their order; built by inserting each child after the children
\* already placed whose score is not smaller
RECURSIVE sortedByHeuristicL(_, _, _)
sortedByHeuristicL(children, i, acc) ==
  IF i > Len(children) THEN [j \in 1..Len(acc) |-> acc[j].child]
  ELSE LET e == [h |-> heuristic_evaluateL(children[i]), child |-> children[i]]
       IN  sortedByHeuristicL(children, i + 1,
             SelectSeq(acc, LAMBDA y : y.h >= e.h) \o <<e>>
               \o SelectSeq(acc, LAMBDA y : y.h < e.h))

opponentL(player) == IF player = "X" THEN "O" ELSE "X"

\* simple_minimax(board, player) of alphabeta.py: max or min over all children
RECURSIVE simple_minimaxL(_, _)
RECURSIVE candscoresL(_, _, _, _)
candscoresL(children, i, player, best) ==
  IF i > Len(children) THEN best
  ELSE LET s == simple_minimaxL(children[i], opponentL(player))
       IN  candscoresL(children, i + 1, player,
             IF player = "X" THEN max(best, s) ELSE min(best, s))

simple_minimaxL(b, player) ==
  LET value == evaluateL(b)
  IN  IF value # None THEN value
      ELSE candscoresL(childrenL(b, player), 1, player,
                       IF player = "X" THEN -Inf ELSE Inf)

\* alphabeta(board, player, alpha, beta) of alphabeta.py; heuristic is the
\* switch of line 119 (off in the source)
RECURSIVE alphabetaL(_, _, _, _, _)
RECURSIVE maxLoopL(_, _, _, _, _, _)
RECURSIVE minLoopL(_, _, _, _, _, _)

maxLoopL(children, i, value, alpha, beta, heuristic) ==
  IF i > Len(children) THEN value
  ELSE LET v == max(value, alphabetaL(children[i], "O", alpha, beta, heuristic))
           a == max(alpha, v)
       IN  IF a >= beta THEN v
           ELSE maxLoopL(children, i + 1, v, a, beta, heuristic)

minLoopL(children, i, value, alpha, beta, heuristic) ==
  IF i > Len(children) THEN value
  ELSE LET v == min(value, alphabetaL(children[i], "X", alpha, beta, heuristic))
           bb == min(beta, v)
       IN  IF alpha >= bb THEN v
           ELSE minLoopL(children, i + 1, v, alpha, bb, heuristic)

alphabetaL(b, player, alpha, beta, heuristic) ==
  LET value == evaluateL(b)
  IN  IF value # None THEN value
      ELSE LET children == childrenL(b, player)
               ordered  == IF heuristic THEN sortedByHeuristicL(children, 1, <<>>)
                           ELSE children
           IN  IF player = "X"
                 THEN maxLoopL(ordered, 1, -Inf, alpha, beta, heuristic)
                 ELSE minLoopL(ordered, 1, Inf, alpha, beta, heuristic)

(***************************************************************************)
(* State                                                                   *)
(***************************************************************************)
VARIABLES
  pc,       \* where the run is
  board,    \* the position as a killer.py Board (its 18-bit value)
  lboard,   \* the same position as an alphabeta.py Board
  turn,     \* the side that places the next piece of the position (1 or -1)
  KILLERS,  \* killer.py KILLERS
  call,     \* the last call made on the position: its arguments and results
  minimizer,\* play(): the flag that selects the side of the next turn
  frame,    \* mcts() or play(): the locals of the call in progress
  CACHE,    \* killer.py CACHE: a function from <<board, player>> to a score
  stack,    \* the calls of simple_minimax and alphabeta in progress, the
            \* innermost last
  opt       \* the switches of the run (killer.py:164, 178, 181)

vars == <<pc, board, lboard, turn, KILLERS, call, minimizer, frame,
          CACHE, stack, opt>>

NoCall == [op |-> "none"]
NoFrame == [at |-> "none"]

\* symbol(code) of killer.py, with its `assert code in PLAYERS`: the side as
\* alphabeta.py names it
symbol(code) ==
  IF code \notin PlayerSet THEN Raise
  ELSE IF code = 1 THEN "X" ELSE "O"

\* the switches as the source sets them: `"Use cache" == False` and
\* `"Heuristic improvement" == False` are false, `"Killer heuristic"` is true
SourceOpt == [cache |-> FALSE, killer |-> TRUE, heuristic |-> FALSE]

\* CACHE = {}
EmptyCache == <<>>

(***************************************************************************)
(* Building positions: one legal placement by the side to move, made on     *)
(* both boards, while the position is not terminal                          *)
(***************************************************************************)
Move(r, c) ==
  /\ pc = "setup"
  /\ evaluate(board) = None
  /\ place(board, r, c, turn) # None
  /\ board' = place(board, r, c, turn)
  /\ lboard' = placeL(lboard, r, c, symbol(turn))
  /\ turn' = -turn
  /\ UNCHANGED <<pc, KILLERS, call, minimizer, frame, CACHE, stack, opt>>

(***************************************************************************)
(* SpecOpening: the searches of the first plies, maximizer first            *)
(***************************************************************************)
MaxOpeningPieces == 2

InitOpening ==
  /\ pc = "setup"
  /\ board = 0
  /\ lboard = EmptyL
  /\ turn = 1
  /\ KILLERS = <<>>
  /\ call = NoCall
  /\ minimizer = TRUE
  /\ frame = NoFrame
  /\ CACHE = EmptyCache
  /\ stack = <<>>
  /\ opt = SourceOpt

OpeningMove(r, c) ==
  /\ 9 - spaces(board) < MaxOpeningPieces
  /\ Move(r, c)

\* alphabeta(board, turn) of both files with the default window
SearchOpening ==
  /\ pc = "setup"
  /\ \E k \in {alphabetaK(board, turn, -Inf, Inf, KILLERS, SourceOpt)} :
         /\ call' = [op |-> "alphabeta", player |-> turn, killers0 |-> KILLERS,
                     k |-> k.value,
                     l |-> alphabetaL(lboard, symbol(turn), -Inf, Inf, FALSE)]
         /\ KILLERS' = k.killers
  /\ pc' = "searched"
  /\ UNCHANGED <<board, lboard, turn, minimizer, frame, CACHE, stack, opt>>

NextOpening ==
  \/ \E r \in 0..2, c \in 0..2 : OpeningMove(r, c)
  \/ SearchOpening

SpecOpening == InitOpening /\ [][NextOpening]_vars

\* C3: from the empty board with the maximizer to move, alphabeta of both
\* files returns 0
C3_EmptyBoardIsDraw ==
  (pc = "searched" /\ board = 0 /\ lboard = EmptyL /\ call.player = 1)
    => call.k = 0 /\ call.l = 0

\* C3 witness: the search of the empty board for the maximizer has returned
C3_Witness_EmptySearched ==
  /\ pc = "searched" /\ board = 0 /\ lboard = EmptyL /\ call.player = 1
  /\ call.k = 0 /\ call.l = 0

\* the board with the maximizer at (0,0) and the minimizer at (r, c)
ReplyBoard(r, c) == place(place(0, 0, 0, 1), r, c, -1)
ReplyBoardL(r, c) == placeL(placeL(EmptyL, 0, 0, "X"), r, c, "O")

\* C4: after the maximizer at (0,0), the minimizer's reply (1,1) searched for
\* the maximizer is worth 0 and its reply (0,1) is worth +10, in both files
C4_RepliesToCorner ==
  (pc = "searched" /\ call.player = 1) =>
    /\ (board = ReplyBoard(1, 1) /\ lboard = ReplyBoardL(1, 1))
         => (call.k = 0 /\ call.l = 0)
    /\ (board = ReplyBoard(0, 1) /\ lboard = ReplyBoardL(0, 1))
         => (call.k = 10 /\ call.l = 10)

\* C4 witness: the reply (0,1) searched for the maximizer returns +10
C4_Witness_EdgeReplyLoses ==
  /\ pc = "searched" /\ call.player = 1
  /\ board = ReplyBoard(0, 1) /\ lboard = ReplyBoardL(0, 1)
  /\ call.k = 10 /\ call.l = 10

(***************************************************************************)
(* SpecSearch: the searches of both files on the positions of a game that   *)
(* either side opens, for either side to move and for a killer table left   *)
(* by earlier searches                                                      *)
(***************************************************************************)
MaxSearchSpaces == 3
MaxKillerLen == 1

\* the masks a maximizer cut-off can push: one bit of the high half
XMasks == {mask(POSITIONS[i][1], POSITIONS[i][2], 1) : i \in 1..9}

RECURSIVE SeqsUpTo(_, _)
SeqsUpTo(S, n) ==
  IF n = 0 THEN {<<>>}
  ELSE LET shorter == SeqsUpTo(S, n - 1)
       IN  shorter \cup {Append(q, e) : q \in shorter, e \in S}

KillerInputs == SeqsUpTo(XMasks, min(MaxKillerLen, KillerCapacity))

InitSearch ==
  /\ pc = "setup"
  /\ board = 0
  /\ lboard = EmptyL
  /\ turn \in PlayerSet
  /\ KILLERS = <<>>
  /\ call = NoCall
  /\ minimizer = TRUE
  /\ frame = NoFrame
  /\ CACHE = EmptyCache
  /\ stack = <<>>
  /\ opt = SourceOpt

SearchMove(r, c) == Move(r, c)

\* On one position and side: simple_minimax and alphabeta of alphabeta.py
\* (heuristic switch off and on), and alphabeta of killer.py with the killer
\* switch off (KILLERS is then never read) and with the heuristic switch on
CallReference(side) ==
  /\ pc = "setup"
  /\ spaces(board) <= MaxSearchSpaces
  /\ \E koff  \in {alphabetaK(board, side, -Inf, Inf, KILLERS,
                               [killer |-> FALSE, heuristic |-> FALSE])},
        kh    \in {alphabetaK(board, side, -Inf, Inf, KILLERS,
                               [killer |-> TRUE, heuristic |-> TRUE])},
        koffh \in {alphabetaK(board, side, -Inf, Inf, KILLERS,
                               [killer |-> FALSE, heuristic |-> TRUE])} :
         call' = [op |-> "reference", player |-> side,
                  mm |-> simple_minimaxL(lboard, symbol(side)),
                  l  |-> alphabetaL(lboard, symbol(side), -Inf, Inf, FALSE),
                  lh |-> alphabetaL(lboard, symbol(side), -Inf, Inf, TRUE),
                  koff |-> koff.value,
                  raised |-> <<koff.raised, kh.raised, koffh.raised>>,
                  kh |-> kh.value, koffh |-> koffh.value]
  /\ pc' = "reference"
  /\ UNCHANGED <<board, lboard, turn, KILLERS, minimizer, frame, CACHE, stack, opt>>

\* alphabeta(board, side) of killer.py as the source runs it, called when
\* KILLERS holds K0
CallKiller(K0) ==
  /\ pc = "reference"
  /\ \E k \in {alphabetaK(board, call.player, -Inf, Inf, K0, SourceOpt)} :
         /\ call' = [op |-> "alphabeta", player |-> call.player, killers0 |-> K0,
                     mm |-> call.mm, l |-> call.l, lh |-> call.lh,
                     koff |-> call.koff, kh |-> call.kh, koffh |-> call.koffh,
                     raised |-> call.raised \o <<k.raised>>,
                     k |-> k.value]
         /\ KILLERS' = k.killers
  /\ pc' = "searched"
  /\ UNCHANGED <<board, lboard, turn, minimizer, frame, CACHE, stack, opt>>

NextSearch ==
  \/ \E r \in 0..2, c \in 0..2 : SearchMove(r, c)
  \/ \E side \in PlayerSet : CallReference(side)
  \/ \E K0 \in KillerInputs : CallKiller(K0)

SpecSearch == InitSearch /\ [][NextSearch]_vars

\* C1: a full-window alphabeta of either file returns the value of the
\* unpruned simple_minimax, whatever KILLERS held when the call started
C1_AlphabetaIsMinimax ==
  pc = "searched" => /\ call.l = call.mm
                     /\ call.k = call.mm

\* C1 witness: a search that started with a stale killer (the mask of a cell
\* the maximizer already holds), pushed a cut-off of its own, and returned
\* the value of simple_minimax
C1_Witness_StaleKiller ==
  /\ pc = "searched"
  /\ call.killers0 # <<>>
  /\ BitAnd(board, call.killers0[1]) # 0
  /\ KILLERS # call.killers0
  /\ call.mm = 10
  /\ call.k = call.mm /\ call.l = call.mm

\* C2 as claimed: on one board and side the four combinations of the killer
\* and heuristic switches of killer.py, and the two of alphabeta.py, all
\* return, and return the same value
C2_OrderingIndependent ==
  pc = "searched" =>
    /\ \A i \in 1..Len(call.raised) : ~call.raised[i]
    /\ call.k = call.koff /\ call.koff = call.kh /\ call.kh = call.koffh
    /\ call.l = call.lh

(***************************************************************************)
(* SpecBoard: Board.place and simple_evaluate called on the positions of a  *)
(* game, with every cell and either side as arguments                       *)
(***************************************************************************)
InitBoard == InitSearch

BoardMove(r, c) == Move(r, c)

\* Board.place(row, col, side) of killer.py (ret) and of mcts.py (retM) on
\* the same board; self is the board before the call, after the board after
CallPlace(r, c, side) ==
  /\ pc = "setup"
  /\ call' = [op |-> "place", self |-> board, row |-> r, col |-> c, player |-> side,
              ret |-> place(board, r, c, side),
              retM |-> placeMcts(board, r, c, side),
              after |-> board]
  /\ pc' = "placed"
  /\ UNCHANGED <<board, lboard, turn, KILLERS, minimizer, frame, CACHE, stack, opt>>

\* simple_evaluate(board) of killer.py (ret) and of alphabeta.py (retL)
CallEvaluate ==
  /\ pc = "setup"
  /\ call' = [op |-> "simple_evaluate", self |-> board,
              ret |-> simple_evaluate(board),
              retL |-> simple_evaluateL(lboard)]
  /\ pc' = "evaluated"
  /\ UNCHANGED <<board, lboard, turn, KILLERS, minimizer, frame, CACHE, stack, opt>>

NextBoard ==
  \/ \E r \in 0..2, c \in 0..2 : BoardMove(r, c)
  \/ \E r \in 0..2, c \in 0..2, side \in PlayerSet : CallPlace(r, c, side)
  \/ CallEvaluate

SpecBoard == InitBoard /\ [][NextBoard]_vars

\* What the claims say of a position, read off the cells played so far
\* (lboard), not off the bit vector.
Cell(r, c) == lboard[r + 1][c + 1]
Lines ==
  { {<<0, 0>>, <<0, 1>>, <<0, 2>>}, {<<1, 0>>, <<1, 1>>, <<1, 2>>},
    {<<2, 0>>, <<2, 1>>, <<2, 2>>}, {<<0, 0>>, <<1, 0>>, <<2, 0>>},
    {<<0, 1>>, <<1, 1>>, <<2, 1>>}, {<<0, 2>>, <<1, 2>>, <<2, 2>>},
    {<<0, 0>>, <<1, 1>>, <<2, 2>>}, {<<0, 2>>, <<1, 1>>, <<2, 0>>} }
HoldsLine(sym) == \E ln \in Lines : \A rc \in ln : Cell(rc[1], rc[2]) = sym
SomeEmpty == \E r \in 0..2, c \in 0..2 : Cell(r, c) = " "

\* the bit of cell (r, c) for a side: bits 9-17 the maximizer, bits 0-8 the
\* minimizer, row-major with (0,0) the most significant bit of its half
BitIndex(r, c, side) == (8 - (3 * r + c)) + (IF side = 1 THEN 9 ELSE 0)

\* ret is b with exactly bit k added, all other bits of the 18 unchanged
AddsExactly(b, ret, k) ==
  /\ ret >= 0 /\ ret < 2^18
  /\ \A i \in 0..17 : BitTest(ret, i) <=> (BitTest(b, i) \/ i = k)

\* C7: place returns None iff the cell is occupied (by either side, for
\* either side placing); otherwise the board with exactly that bit added;
\* the board it was called on is the same afterwards
C7_PlaceLegalIffEmpty ==
  (pc = "placed") =>
    /\ (call.ret = None) <=> (Cell(call.row, call.col) # " ")
    /\ (call.retM = None) <=> (Cell(call.row, call.col) # " ")
    /\ call.ret # None =>
         AddsExactly(call.self, call.ret, BitIndex(call.row, call.col, call.player))
    /\ call.retM # None =>
         AddsExactly(call.self, call.retM, BitIndex(call.row, call.col, call.player))
    /\ call.after = call.self /\ board = call.self

\* C7 witness: the side to move places on a cell the other side holds, and
\* both files reject it
C7_Witness_RejectedForOtherSide ==
  /\ pc = "placed"
  /\ call.player = turn
  /\ Cell(call.row, call.col) = symbol(-turn)
  /\ call.ret = None /\ call.retM = None

\* C10: simple_evaluate is +10 / -10 when the maximizer / minimizer holds a
\* line, 0 on a full board nobody has won, None exactly when nobody holds a
\* line and a cell is empty
C10_SimpleEvaluate ==
  (pc = "evaluated") =>
    \A v \in {call.ret, call.retL} :
      /\ HoldsLine("X") => v = 10
      /\ HoldsLine("O") => v = -10
      /\ (~HoldsLine("X") /\ ~HoldsLine("O") /\ ~SomeEmpty) => v = 0
      /\ (v = None) <=> (~HoldsLine("X") /\ ~HoldsLine("O") /\ SomeEmpty)

\* C10 witness: a full board with a minimizer line evaluates to -10, not 0
C10_Witness_FullBoardWon ==
  /\ pc = "evaluated"
  /\ ~SomeEmpty
  /\ HoldsLine("O")
  /\ call.ret = -10 /\ call.retL = -10

(***************************************************************************)
(* mcts.py: the rollout evaluator and its play() loop                       *)
(***************************************************************************)
\* N = 500 in the source (mcts.py:114): the number of playouts of one call
N == 2
\* the calls followed playout by playout start from boards with at most
\* this many empty cells
MaxRolloutSpaces == 4

\* PLAYERS[minimizer]: a Python list indexed by a bool
playerOf(flag) == PLAYERS[IF flag THEN 2 ELSE 1]

\* [b for b in [game.place(r, c, player) for r, c in POSITIONS] if b]
candidatesMcts(game, player) ==
  SelectSeq([i \in 1..9 |-> placeMcts(game, POSITIONS[i][1], POSITIONS[i][2], player)],
            LAMBDA b : b # None)

\* mcts(board, player), entered: count = 0 and the first playout set up
EnterMcts(b, player, byPlay) ==
  [at |-> "while", board |-> b, player |-> player, n |-> 0, count |-> 0,
   step |-> b, who |-> player, byPlay |-> byPlay]

\* play() calls mcts(b, opponent) on every candidate b of the side to move.
\* The call with side = player, the side that has just moved, is followed on
\* the boards that side has won.  The position becomes the board under
\* evaluation.
CallMcts(r, c, side) ==
  /\ pc = "play"
  /\ won(board) = None
  /\ LET player == playerOf(minimizer)
         b      == placeMcts(board, r, c, player)
     IN  /\ b # None
         /\ spaces(b) <= MaxRolloutSpaces
         /\ side = playerOf(~minimizer) \/ won(b) = side
         /\ frame' = EnterMcts(b, side, side = playerOf(~minimizer))
         /\ board' = b
  /\ pc' = "mcts"
  /\ UNCHANGED <<lboard, turn, KILLERS, call, minimizer, CACHE, stack, opt>>

\* A variant of the playout pass without `if step.won(): break`
McDraw_NoBreak(r, c) ==
  /\ pc = "mcts"
  /\ frame.at = "while"
  /\ spaces(frame.step) # 0
  /\ LET nextstep == placeMcts(frame.step, r, c, frame.who)
     IN  frame' = IF nextstep = None THEN frame
                  ELSE [frame EXCEPT !.who = -frame.who, !.step = nextstep]
  /\ UNCHANGED <<pc, board, lboard, turn, KILLERS, call, minimizer, CACHE, stack, opt>>

\* A variant of the playout pass that keeps the side to move after a
\* placement
McDraw_KeepsSide(r, c) ==
  /\ pc = "mcts"
  /\ frame.at = "while"
  /\ spaces(frame.step) # 0
  /\ LET nextstep == placeMcts(frame.step, r, c, frame.who)
     IN  frame' = IF nextstep = None THEN frame
                  ELSE [frame EXCEPT !.step = nextstep,
                                     !.at = IF won(nextstep) # None THEN "tally"
                                            ELSE "while"]
  /\ UNCHANGED <<pc, board, lboard, turn, KILLERS, call, minimizer, CACHE, stack, opt>>

\* one pass of `while step.spaces()` with the cell random.choice drew
McDraw(r, c) ==
  /\ pc = "mcts"
  /\ frame.at = "while"
  /\ spaces(frame.step) # 0
  /\ LET nextstep == placeMcts(frame.step, r, c, frame.who)
     IN  frame' = IF nextstep = None THEN frame
                  ELSE [frame EXCEPT !.who = -frame.who, !.step = nextstep,
                                     !.at = IF won(nextstep) # None THEN "tally"
                                            ELSE "while"]
  /\ UNCHANGED <<pc, board, lboard, turn, KILLERS, call, minimizer, CACHE, stack, opt>>

\* `while step.spaces()` ends on a full board
McFull ==
  /\ pc = "mcts"
  /\ frame.at = "while"
  /\ spaces(frame.step) = 0
  /\ frame' = [frame EXCEPT !.at = "tally"]
  /\ UNCHANGED <<pc, board, lboard, turn, KILLERS, call, minimizer, CACHE, stack, opt>>

\* if step.won() == player: count += 1; then the next playout, or
\* return count / N
McTally ==
  /\ pc = "mcts"
  /\ frame.at = "tally"
  /\ LET count == IF won(frame.step) = frame.player THEN frame.count + 1
                  ELSE frame.count
         n     == frame.n + 1
     IN  frame' = IF n < N
                    THEN [frame EXCEPT !.count = count, !.n = n, !.at = "while",
                                       !.step = frame.board, !.who = frame.player]
                    ELSE [frame EXCEPT !.count = count, !.n = n, !.at = "return"]
  /\ UNCHANGED <<pc, board, lboard, turn, KILLERS, call, minimizer, CACHE, stack, opt>>

\* Some playout that starts at (step, who) leaves the while loop on a board
\* whose won() is w
RECURSIVE canEnd(_, _, _)
canEnd(step, who, w) ==
  IF spaces(step) = 0 THEN won(step) = w
  ELSE \E i \in 1..9 :
         LET nextstep == placeMcts(step, POSITIONS[i][1], POSITIONS[i][2], who)
         IN  /\ nextstep # None
             /\ IF won(nextstep) # None THEN won(nextstep) = w
                ELSE canEnd(nextstep, -who, w)

\* the values of count that mcts(b, player) can return over N: a playout
\* adds one iff it ends with won() == player
mctsCounts(b, player) ==
  LET canWin  == canEnd(b, player, player)
      canMiss == canEnd(b, player, -player) \/ canEnd(b, player, None)
  IN  {k \in 0..N : (k > 0 => canWin) /\ (k < N => canMiss)}

Least(S) == CHOOSE k \in S : \A j \in S : k <= j
Greatest(S) == CHOOSE k \in S : \A j \in S : k >= j

\* One turn of play(): every candidate scored by mcts for the opponent, the
\* list shuffled, the minimum taken.  A candidate can be the minimum of the
\* shuffled list iff its least possible score is at most every other
\* candidate's greatest possible score.
PlayMcts ==
  /\ pc = "play"
  /\ won(board) = None
  /\ LET player     == playerOf(minimizer)
         opponent   == playerOf(~minimizer)
         candidates == candidatesMcts(board, player)
     IN  /\ candidates # <<>>
         /\ \E scored \in {{ LET counts == mctsCounts(candidates[i], opponent)
                               IN  [b |-> candidates[i], lo |-> Least(counts),
                                    hi |-> Greatest(counts)]
                               : i \in 1..Len(candidates) }} :
              \E x \in scored :
                /\ \A y \in scored : x.lo <= y.hi
                /\ board' = x.b
  /\ minimizer' = ~minimizer
  /\ UNCHANGED <<pc, lboard, turn, KILLERS, call, frame, CACHE, stack, opt>>

\* the loop ends: game.won(), or no candidate left
PlayMctsOver ==
  /\ pc = "play"
  /\ \/ won(board) # None
     \/ candidatesMcts(board, playerOf(minimizer)) = <<>>
  /\ pc' = "over"
  /\ UNCHANGED <<board, lboard, turn, KILLERS, call, minimizer, frame, CACHE, stack, opt>>

InitMcts ==
  /\ pc = "play"
  /\ board = 0
  /\ lboard = EmptyL
  /\ turn = PLAYERS[2]
  /\ KILLERS = <<>>
  /\ call = NoCall
  /\ minimizer = TRUE
  /\ frame = NoFrame
  /\ CACHE = EmptyCache
  /\ stack = <<>>
  /\ opt = SourceOpt

NextMcts ==
  \/ PlayMcts
  \/ PlayMctsOver
  \/ \E r \in 0..2, c \in 0..2, side \in PlayerSet : CallMcts(r, c, side)
  \/ \E r \in 0..2, c \in 0..2 : McDraw(r, c)
  \/ McFull
  \/ McTally

SpecMcts == InitMcts /\ [][NextMcts]_vars

\* C5 as claimed: on a board already won by the opponent of `player`,
\* mcts returns 0.0, no playout counted
C5_LostBoardScoresZero ==
  (pc = "mcts" /\ frame.at = "return" /\ won(frame.board) = -frame.player)
    => frame.count = 0

\* C6: on a board already won by `player`, mcts returns 1.0, every playout
\* counted
C6_WonBoardScoresOne ==
  (pc = "mcts" /\ frame.at = "return" /\ won(frame.board) = frame.player)
    => frame.count = N

\* C6 witness: a returned call on a board won by `player` that still had
\* empty cells
C6_Witness_WonWithSpaces ==
  /\ pc = "mcts" /\ frame.at = "return"
  /\ won(frame.board) = frame.player
  /\ spaces(frame.board) > 0
  /\ frame.count = N

(***************************************************************************)
(* killer.py: play(), one turn a step                                       *)
(***************************************************************************)
\* [b for b in [game.place(r, c, player) for r, c in POSITIONS] if b]
candidatesOf(game, player) ==
  SelectSeq([i \in 1..9 |-> place(game, POSITIONS[i][1], POSITIONS[i][2], player)],
            LAMBDA b : b # None)

\* [(b, minimax(b, opponent)) for b in ...]: the searches run in the order
\* of the candidates, each starting from the KILLERS the one before left
RECURSIVE scoreCandidates(_, _, _, _, _)
scoreCandidates(candidates, i, opponent, K, scores) ==
  IF i > Len(candidates) THEN [scores |-> scores, killers |-> K]
  ELSE LET r == alphabetaK(candidates[i], opponent, -Inf, Inf, K, SourceOpt)
       IN  scoreCandidates(candidates, i + 1, opponent, r.killers,
                           Append(scores, r.value))

\* One turn of play(): the candidates scored, shuffled, and the first of the
\* greatest (maximizer) or least (minimizer) score taken, which after the
\* shuffle is any candidate of that score
PlayKiller ==
  /\ pc = "kplay"
  /\ won(board) = None
  /\ LET player     == playerOf(minimizer)
         opponent   == playerOf(~minimizer)
         candidates == candidatesOf(board, player)
     IN  /\ candidates # <<>>
         /\ \E scored \in {scoreCandidates(candidates, 1, opponent, KILLERS, <<>>)} :
              /\ \E i \in 1..Len(candidates) :
                   /\ \A j \in 1..Len(candidates) :
                        IF player = 1 THEN scored.scores[i] >= scored.scores[j]
                        ELSE scored.scores[i] <= scored.scores[j]
                   /\ board' = candidates[i]
              /\ KILLERS' = scored.killers
  /\ minimizer' = ~minimizer
  /\ UNCHANGED <<pc, lboard, turn, call, frame, CACHE, stack, opt>>

PlayKillerOver ==
  /\ pc = "kplay"
  /\ \/ won(board) # None
     \/ candidatesOf(board, playerOf(minimizer)) = <<>>
  /\ pc' = "kover"
  /\ UNCHANGED <<board, lboard, turn, KILLERS, call, minimizer, frame, CACHE, stack, opt>>

InitPlay ==
  /\ pc = "kplay"
  /\ board = 0
  /\ lboard = EmptyL
  /\ turn = PLAYERS[2]
  /\ KILLERS = <<>>
  /\ call = NoCall
  /\ minimizer = TRUE
  /\ frame = NoFrame
  /\ CACHE = EmptyCache
  /\ stack = <<>>
  /\ opt = SourceOpt

(***************************************************************************)
(* killer.py: simple_minimax and alphabeta call by call.  stack holds one   *)
(* frame per call in progress; a frame is at "entry" when the call has just *)
(* been made, at "loop" inside the loop over the children, at "exit" after  *)
(* the loop, and at "return" when it holds the value it returns.            *)
(***************************************************************************)
\* (board.board, player) in CACHE
InCache(c, b, player) == <<b, player>> \in DOMAIN c

\* CACHE[(board.board, player)] = value
storeCache(c, b, player, value) == (<<b, player>> :> value) @@ c

\* the switches with the transposition cache of alphabeta turned on
CacheOpt == [cache |-> TRUE, killer |-> TRUE, heuristic |-> FALSE]

\* the locals of a call that has just been made
entryFrame(fn, b, player, alpha, beta) ==
  [fn |-> fn, at |-> "entry", board |-> b, player |-> player,
   alpha |-> alpha, beta |-> beta, value |-> None,
   children |-> <<>>, i |-> 1, candscores |-> <<>>]

top == stack[Len(stack)]
setTop(f) == [stack EXCEPT ![Len(stack)] = f]

\* max(candscores) / min(candscores)
RECURSIVE maxOf(_)
maxOf(q) == IF Len(q) = 1 THEN q[1] ELSE max(q[1], maxOf(Tail(q)))
RECURSIVE minOf(_)
minOf(q) == IF Len(q) = 1 THEN q[1] ELSE min(q[1], minOf(Tail(q)))

\* A variant of the entry of alphabeta without the cache lookup
AbEnter_NoLookup ==
  /\ pc = "search" /\ stack # <<>>
  /\ top.fn = "alphabeta" /\ top.at = "entry"
  /\ LET f        == top
         value    == evaluate(f.board)
         children == childrenOf(f.board, f.player)
         ordered  == IF opt.killer THEN killerSorted(children, KILLERS)
                     ELSE children
     IN  stack' = setTop(
           IF value # None
             THEN [f EXCEPT !.at = "return", !.value = value]
           ELSE [f EXCEPT !.at = "loop", !.children = ordered,
                          !.value = IF f.player = 1 THEN -Inf ELSE Inf])
  /\ UNCHANGED <<pc, board, lboard, turn, KILLERS, call, minimizer, frame,
                 CACHE, opt>>

\* alphabeta, lines 164-184: the cache lookup (when switched on), the
\* terminal test, then the children in the order of the loop
AbEnter ==
  /\ pc = "search" /\ stack # <<>>
  /\ top.fn = "alphabeta" /\ top.at = "entry"
  /\ LET f        == top
         value    == evaluate(f.board)
         children == childrenOf(f.board, f.player)
         ordered  == IF opt.killer THEN killerSorted(children, KILLERS)
                     ELSE children
     IN  stack' = setTop(
           IF opt.cache /\ InCache(CACHE, f.board, f.player)
             THEN [f EXCEPT !.at = "return",
                            !.value = CACHE[<<f.board, f.player>>]]
           ELSE IF value # None
             THEN [f EXCEPT !.at = "return", !.value = value]
           ELSE IF opt.heuristic
             THEN [f EXCEPT !.at = "raise"]
           ELSE [f EXCEPT !.at = "loop", !.children = ordered,
                          !.value = IF f.player = 1 THEN -Inf ELSE Inf])
  /\ UNCHANGED <<pc, board, lboard, turn, KILLERS, call, minimizer, frame,
                 CACHE, opt>>

\* alphabeta(child, opponent, alpha, beta) on the next child of the loop
AbDescend ==
  /\ pc = "search" /\ stack # <<>>
  /\ top.fn = "alphabeta" /\ top.at = "loop"
  /\ top.i <= Len(top.children)
  /\ stack' = Append(stack, entryFrame("alphabeta", top.children[top.i].child,
                                       -top.player, top.alpha, top.beta))
  /\ UNCHANGED <<pc, board, lboard, turn, KILLERS, call, minimizer, frame,
                 CACHE, opt>>

\* A variant of the loop body that pushes the killer at a cut-off of either
\* side
AbReturn_PushesBothSides ==
  /\ pc = "search" /\ Len(stack) >= 2
  /\ top.at = "return"
  /\ stack[Len(stack) - 1].fn = "alphabeta"
  /\ LET r      == top.value
         caller == stack[Len(stack) - 1]
         rest   == SubSeq(stack, 1, Len(stack) - 2)
         value  == IF caller.player = 1 THEN max(caller.value, r)
                   ELSE min(caller.value, r)
         alpha  == IF caller.player = 1 THEN max(caller.alpha, value)
                   ELSE caller.alpha
         beta   == IF caller.player = 1 THEN caller.beta
                   ELSE min(caller.beta, value)
     IN  IF alpha >= beta
           THEN /\ KILLERS' = pushKiller(KILLERS, caller.children[caller.i].mask)
                /\ stack' = Append(rest, [caller EXCEPT !.value = value, !.alpha = alpha,
                                            !.beta = beta, !.at = "exit"])
           ELSE /\ KILLERS' = KILLERS
                /\ stack' = Append(rest, [caller EXCEPT !.value = value, !.alpha = alpha,
                                            !.beta = beta, !.i = caller.i + 1])
  /\ UNCHANGED <<pc, board, lboard, turn, call, minimizer, frame, CACHE, opt>>

\* the call on a child returns r into the loop of its caller: lines 188-194
\* for the maximizer, 198-201 for the minimizer
AbReturn ==
  /\ pc = "search" /\ Len(stack) >= 2
  /\ top.at = "return"
  /\ stack[Len(stack) - 1].fn = "alphabeta"
  /\ LET r      == top.value
         caller == stack[Len(stack) - 1]
         rest   == SubSeq(stack, 1, Len(stack) - 2)
     IN  IF caller.player = 1
           THEN LET value == max(caller.value, r)
                    alpha == max(caller.alpha, value)
                IN  IF alpha >= caller.beta
                      THEN /\ KILLERS' = pushKiller(KILLERS, caller.children[caller.i].mask)
                           /\ stack' = Append(rest, [caller EXCEPT !.value = value,
                                                       !.alpha = alpha, !.at = "exit"])
                      ELSE /\ KILLERS' = KILLERS
                           /\ stack' = Append(rest, [caller EXCEPT !.value = value,
                                                       !.alpha = alpha, !.i = caller.i + 1])
           ELSE LET value == min(caller.value, r)
                    beta  == min(caller.beta, value)
                IN  /\ KILLERS' = KILLERS
                    /\ stack' = Append(rest,
                         IF caller.alpha >= beta
                           THEN [caller EXCEPT !.value = value, !.beta = beta, !.at = "exit"]
                           ELSE [caller EXCEPT !.value = value, !.beta = beta,
                                               !.i = caller.i + 1])
  /\ UNCHANGED <<pc, board, lboard, turn, call, minimizer, frame, CACHE, opt>>

\* after the loop, by exhaustion or by break: lines 202-205, the store
\* (when switched on) and `return value`
AbExit ==
  /\ pc = "search" /\ stack # <<>>
  /\ top.fn = "alphabeta"
  /\ \/ top.at = "exit"
     \/ top.at = "loop" /\ top.i > Len(top.children)
  /\ CACHE' = IF opt.cache THEN storeCache(CACHE, top.board, top.player, top.value)
              ELSE CACHE
  /\ stack' = setTop([top EXCEPT !.at = "return"])
  /\ UNCHANGED <<pc, board, lboard, turn, KILLERS, call, minimizer, frame, opt>>

\* simple_minimax, lines 138-148: the cache lookup, the terminal test, then
\* the boards of the list comprehension
SmEnter ==
  /\ pc = "search" /\ stack # <<>>
  /\ top.fn = "simple_minimax" /\ top.at = "entry"
  /\ LET f     == top
         value == evaluate(f.board)
     IN  stack' = setTop(
           IF InCache(CACHE, f.board, f.player)
             THEN [f EXCEPT !.at = "return",
                            !.value = CACHE[<<f.board, f.player>>]]
           ELSE IF value # None
             THEN [f EXCEPT !.at = "return", !.value = value]
           ELSE [f EXCEPT !.at = "loop",
                          !.children = candidatesOf(f.board, f.player)])
  /\ UNCHANGED <<pc, board, lboard, turn, KILLERS, call, minimizer, frame,
                 CACHE, opt>>

\* simple_minimax(b, opponent) on the next board of the comprehension
SmDescend ==
  /\ pc = "search" /\ stack # <<>>
  /\ top.fn = "simple_minimax" /\ top.at = "loop"
  /\ top.i <= Len(top.children)
  /\ stack' = Append(stack, entryFrame("simple_minimax", top.children[top.i],
                                       -top.player, None, None))
  /\ UNCHANGED <<pc, board, lboard, turn, KILLERS, call, minimizer, frame,
                 CACHE, opt>>

\* the call returns its score into candscores
SmReturn ==
  /\ pc = "search" /\ Len(stack) >= 2
  /\ top.at = "return"
  /\ stack[Len(stack) - 1].fn = "simple_minimax"
  /\ LET caller == stack[Len(stack) - 1]
     IN  stack' = Append(SubSeq(stack, 1, Len(stack) - 2),
                         [caller EXCEPT !.candscores = Append(caller.candscores, top.value),
                                        !.i = caller.i + 1])
  /\ UNCHANGED <<pc, board, lboard, turn, KILLERS, call, minimizer, frame,
                 CACHE, opt>>

\* A variant of the end of simple_minimax that stores under the opponent
SmExit_StoresForOpponent ==
  /\ pc = "search" /\ stack # <<>>
  /\ top.fn = "simple_minimax" /\ top.at = "loop"
  /\ top.i > Len(top.children)
  /\ LET value == IF top.player = 1 THEN maxOf(top.candscores)
                  ELSE minOf(top.candscores)
     IN  /\ CACHE' = storeCache(CACHE, top.board, -top.player, value)
         /\ stack' = setTop([top EXCEPT !.at = "return", !.value = value])
  /\ UNCHANGED <<pc, board, lboard, turn, KILLERS, call, minimizer, frame, opt>>

\* lines 150-156: max or min of candscores, the store, `return value`
SmExit ==
  /\ pc = "search" /\ stack # <<>>
  /\ top.fn = "simple_minimax" /\ top.at = "loop"
  /\ top.i > Len(top.children)
  /\ LET value == IF top.player = 1 THEN maxOf(top.candscores)
                  ELSE minOf(top.candscores)
     IN  /\ CACHE' = storeCache(CACHE, top.board, top.player, value)
         /\ stack' = setTop([top EXCEPT !.at = "return", !.value = value])
  /\ UNCHANGED <<pc, board, lboard, turn, KILLERS, call, minimizer, frame, opt>>

\* the steps of the calls of alphabeta in progress
AbStep ==
  \/ AbEnter
  \/ AbDescend
  \/ AbReturn
  \/ AbExit

\* the steps of the calls in progress
SearchStep ==
  \/ AbStep
  \/ SmEnter
  \/ SmDescend
  \/ SmReturn
  \/ SmExit

(***************************************************************************)
(* SpecCache: simple_minimax and alphabeta of killer.py called one after    *)
(* the other on positions of one game, each for the side to move, all calls *)
(* sharing CACHE and KILLERS, with the cache switch of alphabeta off (the   *)
(* source) or on                                                            *)
(***************************************************************************)
\* the calls are made on boards with at most this many empty cells
MaxCachedSpaces == 3
\* at most this many calls in one run
MaxRootCalls == 2

InitCache ==
  /\ pc = "setup"
  /\ board = 0
  /\ lboard = EmptyL
  /\ turn = PLAYERS[2]
  /\ KILLERS = <<>>
  /\ call = NoCall
  /\ minimizer = TRUE
  /\ frame = [at |-> "calls", n |-> 0]
  /\ CACHE = EmptyCache
  /\ stack = <<>>
  /\ opt \in {SourceOpt, CacheOpt}

CacheMove(r, c) == Move(r, c)

\* fn(board, side) called with the default window, for the side to move
CallRoot(fn, side) ==
  /\ pc = "setup"
  /\ side = turn
  /\ frame.at = "calls" /\ frame.n < MaxRootCalls
  /\ spaces(board) <= MaxCachedSpaces
  /\ stack' = << IF fn = "alphabeta"
                   THEN entryFrame(fn, board, side, -Inf, Inf)
                   ELSE entryFrame(fn, board, side, None, None) >>
  /\ call' = [op |-> fn, board |-> board, player |-> side, cache0 |-> CACHE,
              killers0 |-> KILLERS, ret |-> None]
  /\ frame' = [frame EXCEPT !.n = frame.n + 1]
  /\ pc' = "search"
  /\ UNCHANGED <<board, lboard, turn, KILLERS, minimizer, CACHE, opt>>

\* the outermost call returns
RootReturn ==
  /\ pc = "search" /\ Len(stack) = 1
  /\ top.at = "return"
  /\ frame.at = "calls"
  /\ call' = [call EXCEPT !.ret = top.value]
  /\ stack' = <<>>
  /\ pc' = "setup"
  /\ UNCHANGED <<board, lboard, turn, KILLERS, minimizer, frame, CACHE, opt>>

NextCache ==
  \/ \E r \in 0..2, c \in 0..2 : CacheMove(r, c)
  \/ \E fn \in {"simple_minimax", "alphabeta"}, side \in PlayerSet : CallRoot(fn, side)
  \/ SearchStep
  \/ RootReturn

SpecCache == InitCache /\ [][NextCache]_vars

\* the minimax value of board b with side p to move, by the rules of the
\* game: the score of a finished board, else the best score of a successor
RECURSIVE Minimax(_, _)
Minimax(b, p) ==
  IF won(b) = 1 THEN 10
  ELSE IF won(b) = -1 THEN -10
  ELSE IF spaces(b) = 0 THEN 0
  ELSE LET scores == { Minimax(place(b, r, c, p), -p) :
                         <<r, c>> \in {rc \in (0..2) \X (0..2) :
                                         place(b, rc[1], rc[2], p) # None} }
       IN  IF p = 1 THEN CHOOSE v \in scores : \A w \in scores : v >= w
           ELSE CHOOSE v \in scores : \A w \in scores : v <= w

\* C11: with the source's switches (only simple_minimax writes CACHE), every
\* entry of CACHE maps its key (board, side to move) to the minimax value
C11_CacheIsExact ==
  (opt = SourceOpt /\ stack = <<>>) =>
    \A key \in DOMAIN CACHE : CACHE[key] = Minimax(key[1], key[2])

\* C11 witness: two calls of simple_minimax have returned, the second on a
\* later position of the game and answered from the entry the first stored
C11_Witness_SecondCallHit ==
  /\ opt = SourceOpt /\ pc = "setup" /\ frame.at = "calls" /\ frame.n = 2
  /\ call.op = "simple_minimax"
  /\ InCache(call.cache0, call.board, call.player)
  /\ CACHE = call.cache0
  /\ call.ret = CACHE[<<call.board, call.player>>]
  /\ call.ret = Minimax(call.board, call.player)

\* C12 as claimed: with the cache switched on, every full-window call of
\* alphabeta in a sequence that shares CACHE returns what the same call
\* returns with the cache switched off
C12_CachedSearchIsExact ==
  (opt.cache /\ pc = "setup" /\ call.op = "alphabeta" /\ call.ret # None) =>
    call.ret = alphabetaK(call.board, call.player, -Inf, Inf, call.killers0,
                          SourceOpt).value

\* a step that ends the loop of a call of simple_minimax, or of alphabeta
\* with the cache switched on: the step of the store (lines 155, 204)
StoreStep ==
  /\ pc = "search" /\ stack # <<>>
  /\ top.at \in {"loop", "exit"}
  /\ Len(stack') = Len(stack) /\ stack'[Len(stack')].at = "return"
  /\ top.fn = "simple_minimax" \/ opt.cache

\* a call made for a key CACHE holds, by a function that looks it up
LookupHit ==
  /\ pc = "search" /\ stack # <<>>
  /\ top.at = "entry"
  /\ top.fn = "simple_minimax" \/ opt.cache
  /\ InCache(CACHE, top.board, top.player)

\* C13: every step keeps the entries CACHE holds, with their values; a
\* store is for a key CACHE does not hold yet; a call for a key CACHE holds
\* returns the stored value in its next step, without a recursive call
C13_WriteOnce ==
  [][ /\ \A key \in DOMAIN CACHE : key \in DOMAIN CACHE' /\ CACHE'[key] = CACHE[key]
      /\ StoreStep => /\ ~InCache(CACHE, top.board, top.player)
                      /\ InCache(CACHE', top.board, top.player)
      /\ LookupHit => /\ CACHE' = CACHE
                      /\ stack' = setTop([top EXCEPT !.at = "return",
                                            !.value = CACHE[<<top.board, top.player>>]])
    ]_vars

\* C13 witness: with the cache switched on, a second call of alphabeta, on
\* a board that is not terminal, has returned without a loop of its own,
\* with the value the first call stored for it
C13_Witness_LaterCallHit ==
  /\ opt.cache /\ pc = "search" /\ stack # <<>>
  /\ frame.at = "calls" /\ frame.n = 2
  /\ top.fn = "alphabeta" /\ top.at = "return"
  /\ evaluate(top.board) = None
  /\ top.children = <<>>
  /\ InCache(call.cache0, top.board, top.player)
  /\ top.value = CACHE[<<top.board, top.player>>]

(***************************************************************************)
(* SpecSteps: play() of killer.py with its searches followed call by call   *)
(***************************************************************************)
InitSteps ==
  /\ pc = "splay"
  /\ board = 0
  /\ lboard = EmptyL
  /\ turn = PLAYERS[2]
  /\ KILLERS = <<>>
  /\ call = NoCall
  /\ minimizer = TRUE
  /\ frame = [at |-> "while"]
  /\ CACHE = EmptyCache
  /\ stack = <<>>
  /\ opt = SourceOpt

\* lines 215-219: the loop test, the sides of the turn, the boards to score
StepTurn ==
  /\ pc = "splay" /\ frame.at = "while"
  /\ won(board) = None
  /\ LET candidates == candidatesOf(board, playerOf(minimizer))
     IN  /\ candidates # <<>>
         /\ frame' = [at |-> "candidates", candidates |-> candidates, i |-> 1,
                      scores |-> <<>>]
  /\ UNCHANGED <<pc, board, lboard, turn, KILLERS, call, minimizer, CACHE, stack, opt>>

\* line 219: minimax(b, opponent) for the next board b
StepCall ==
  /\ pc = "splay" /\ frame.at = "candidates"
  /\ frame.i <= Len(frame.candidates)
  /\ stack' = << entryFrame("alphabeta", frame.candidates[frame.i],
                            playerOf(~minimizer), -Inf, Inf) >>
  /\ call' = [op |-> "alphabeta", board |-> frame.candidates[frame.i],
              player |-> playerOf(~minimizer), cache0 |-> CACHE,
              killers0 |-> KILLERS, ret |-> None]
  /\ pc' = "search"
  /\ UNCHANGED <<board, lboard, turn, KILLERS, minimizer, frame, CACHE, opt>>

\* the search returns the score of the board
StepScore ==
  /\ pc = "search" /\ Len(stack) = 1
  /\ top.at = "return"
  /\ frame.at = "candidates"
  /\ frame' = [frame EXCEPT !.scores = Append(frame.scores, top.value),
                            !.i = frame.i + 1]
  /\ call' = [call EXCEPT !.ret = top.value]
  /\ stack' = <<>>
  /\ pc' = "splay"
  /\ UNCHANGED <<board, lboard, turn, KILLERS, minimizer, CACHE, opt>>

\* lines 222-229: after the shuffle, max or min takes any board of the
\* extremal score; the sides switch
StepChoose ==
  /\ pc = "splay" /\ frame.at = "candidates"
  /\ frame.i > Len(frame.candidates)
  /\ \E k \in 1..Len(frame.candidates) :
       /\ \A j \in 1..Len(frame.candidates) :
            IF playerOf(minimizer) = 1 THEN frame.scores[k] >= frame.scores[j]
            ELSE frame.scores[k] <= frame.scores[j]
       /\ board' = frame.candidates[k]
  /\ minimizer' = ~minimizer
  /\ frame' = [at |-> "while"]
  /\ UNCHANGED <<pc, lboard, turn, KILLERS, call, CACHE, stack, opt>>

\* the loop ends: game.won(), or no candidate left
StepOver ==
  /\ pc = "splay" /\ frame.at = "while"
  /\ \/ won(board) # None
     \/ candidatesOf(board, playerOf(minimizer)) = <<>>
  /\ pc' = "sover"
  /\ UNCHANGED <<board, lboard, turn, KILLERS, call, minimizer, frame, CACHE, stack, opt>>

\* play() calls minimax = alphabeta only
NextSteps ==
  \/ StepTurn
  \/ StepCall
  \/ AbStep
  \/ StepScore
  \/ StepChoose
  \/ StepOver

SpecSteps == InitSteps /\ [][NextSteps]_vars

\* the call that made the innermost one
caller == stack[Len(stack) - 1]

\* the innermost call returns into the loop of a maximizer and the loop
\* breaks: alpha, raised by the value returned, reaches beta
MaximizerCutoff ==
  /\ pc = "search" /\ Len(stack) >= 2
  /\ top.at = "return"
  /\ caller.fn = "alphabeta" /\ caller.player = 1
  /\ max(caller.alpha, max(caller.value, top.value)) >= caller.beta

\* K with m pushed at the tail, the head dropped from a table of four
FifoPush(K, m) ==
  IF Len(K) < 4 THEN K \o <<m>>
  ELSE <<K[2], K[3], K[4], m>>

\* C14: KILLERS never holds more than 4 entries, and every change of it is
\* a push at the tail that drops exactly the head from a table of 4
C14_KillersBoundedFifo ==
  /\ [](Len(KILLERS) <= 4)
  /\ [][ KILLERS' # KILLERS =>
           /\ KILLERS' # <<>>
           /\ KILLERS' = FifoPush(KILLERS, KILLERS'[Len(KILLERS')]) ]_vars

\* C14 witness: a search that started with 4 killers has pushed another
C14_Witness_PushOntoFull ==
  /\ pc = "search" /\ stack # <<>>
  /\ Len(call.killers0) = 4 /\ Len(KILLERS) = 4
  /\ KILLERS # call.killers0
  /\ top.at = "exit" /\ top.player = 1
  /\ KILLERS[4] = top.children[top.i].mask
  /\ KILLERS[4] # call.killers0[4]

\* C15: a step changes KILLERS only at a maximizer cut-off, and then pushes
\* the mask of the child that returned (the bit it added to the board of its
\* caller); every entry is one bit of the maximizer half
C15_OnlyMaximizerCutoffPushes ==
  /\ [](\A i \in 1..Len(KILLERS) : \E k \in 9..17 : KILLERS[i] = 2^k)
  /\ [][ IF MaximizerCutoff
           THEN KILLERS' = FifoPush(KILLERS, top.board - caller.board)
           ELSE KILLERS' = KILLERS ]_vars

\* C15 witness: the loop of a minimizer has ended by a cut-off, children
\* left, while KILLERS holds what the search started with
C15_Witness_MinimizerCutoff ==
  /\ pc = "search" /\ stack # <<>>
  /\ top.at = "exit" /\ top.player = -1
  /\ top.i < Len(top.children)
  /\ KILLERS # <<>> /\ KILLERS = call.killers0

\* the cell (r, c) of board value b is empty
EmptyCell(b, r, c) ==
  ~BitTest(b, BitIndex(r, c, 1)) /\ ~BitTest(b, BitIndex(r, c, -1))

\* the innermost call has just built its ordered list of children
FreshLoop ==
  /\ pc = "search" /\ stack # <<>>
  /\ top.fn = "alphabeta" /\ top.at = "loop" /\ top.i = 1

\* C20: the ordered children of a node are one child per empty cell, each
\* the board plus the bit of the side to move; the children whose mask is in
\* KILLERS come first; each group is in row-major order (masks descending)
C20_ChildrenOrdered ==
  FreshLoop =>
    LET ch == top.children
    IN  /\ \A r \in 0..2, c \in 0..2 :
             Cardinality({j \in 1..Len(ch) : ch[j].mask = 2^BitIndex(r, c, top.player)})
               = IF EmptyCell(top.board, r, c) THEN 1 ELSE 0
        /\ \A j \in 1..Len(ch) :
             /\ \E r \in 0..2, c \in 0..2 : ch[j].mask = 2^BitIndex(r, c, top.player)
             /\ ch[j].child = top.board + ch[j].mask
        /\ \A j, k \in 1..Len(ch) :
             j < k =>
               LET kj == \E i \in 1..Len(KILLERS) : KILLERS[i] = ch[j].mask
                   kk == \E i \in 1..Len(KILLERS) : KILLERS[i] = ch[k].mask
               IN  /\ kk => kj
                   /\ (kj = kk) => ch[j].mask > ch[k].mask

\* C20 witness: a killer has been moved ahead of a child that precedes it in
\* row-major order, and another killer is not a legal move of the node
C20_Witness_KillerMovedAhead ==
  /\ FreshLoop
  /\ \E j, k \in 1..Len(top.children) :
       j < k /\ top.children[j].mask < top.children[k].mask
  /\ \E i \in 1..Len(KILLERS) :
       \A j \in 1..Len(top.children) : top.children[j].mask # KILLERS[i]

(***************************************************************************)
(* ttt.py: minimax.  Board and heuristic_evaluate of ttt.py are, line for   *)
(* line, those of alphabeta.py, so the list board is shared.                *)
(***************************************************************************)
\* heuristic_evaluate(board) of ttt.py
heuristic_evaluateT(b) == sumScoresL(heuristicRows(b), 1)

\* evaluate = heuristic_evaluate (ttt.py:85)
evaluateT(b) == heuristic_evaluateT(b)

\* minimax(board, who) of ttt.py, with its `assert who in PLAYERS`: who has
\* just moved, opponent moves next
RECURSIVE minimaxT(_, _)
minimaxT(b, who) ==
  LET opponent == PLAYERSL[IF who = "X" THEN 2 ELSE 1]
      value    == evaluateT(b)
  IN  IF who \notin {PLAYERSL[1], PLAYERSL[2]} THEN Raise
      ELSE IF value # None THEN value
      ELSE LET children   == childrenL(b, opponent)
               candscores == [i \in 1..Len(children) |-> minimaxT(children[i], opponent)]
           IN  IF candscores = <<>> THEN 0
               ELSE IF who = "X" THEN minOf(candscores)
               ELSE maxOf(candscores)

(***************************************************************************)
(* ttt.py: play(), call by call.  A turn lists the boards one placement     *)
(* away, calls minimax on each in turn, shuffles, and takes a board of the  *)
(* greatest (X) or least (O) score.                                         *)
(***************************************************************************)
\* PLAYERS[flag] of ttt.py
playerOfT(flag) == PLAYERSL[IF flag THEN 2 ELSE 1]

\* minimizer = True; game = Board()
InitPlayT ==
  /\ pc = "tplay"
  /\ board = 0
  /\ lboard = EmptyL
  /\ turn = PLAYERS[2]
  /\ KILLERS = <<>>
  /\ call = NoCall
  /\ minimizer = TRUE
  /\ frame = NoFrame
  /\ CACHE = EmptyCache
  /\ stack = <<>>
  /\ opt = SourceOpt

\* `while not game.won()` lets a turn start: the side to move and the boards
\* one placement away, none of them scored yet
TttTurn ==
  /\ pc = "tplay"
  /\ wonL(lboard) = NoSymbol
  /\ childrenL(lboard, playerOfT(minimizer)) # <<>>
  /\ frame' = [at |-> "candidates", player |-> playerOfT(minimizer),
               boards |-> childrenL(lboard, playerOfT(minimizer)),
               scores |-> <<>>]
  /\ pc' = "tturn"
  /\ UNCHANGED <<board, lboard, turn, KILLERS, call, minimizer, CACHE, stack, opt>>

\* minimax(b, player) on the next board of the list, and its score kept
TttCall ==
  /\ pc = "tturn"
  /\ Len(frame.scores) < Len(frame.boards)
  /\ \E ret \in {minimaxT(frame.boards[Len(frame.scores) + 1], frame.player)} :
       /\ call' = [op |-> "minimax", who |-> frame.player,
                   on |-> frame.boards[Len(frame.scores) + 1], ret |-> ret]
       /\ frame' = [frame EXCEPT !.scores = Append(@, ret)]
  /\ UNCHANGED <<pc, board, lboard, turn, KILLERS, minimizer, CACHE, stack, opt>>

\* random.shuffle, then max / min by score: the first of the best in shuffled
\* order, which can be any board of the best score; the sides change
TttChoose ==
  /\ pc = "tturn"
  /\ Len(frame.scores) = Len(frame.boards)
  /\ \E i \in 1..Len(frame.boards) :
       /\ \A j \in 1..Len(frame.boards) :
            IF frame.player = "X" THEN frame.scores[i] >= frame.scores[j]
            ELSE frame.scores[i] <= frame.scores[j]
       /\ lboard' = frame.boards[i]
  /\ minimizer' = ~minimizer
  /\ frame' = NoFrame
  /\ pc' = "tplay"
  /\ UNCHANGED <<board, turn, KILLERS, call, CACHE, stack, opt>>

\* the loop ends: game.won(), or `if not candidates: break`
TttOver ==
  /\ pc = "tplay"
  /\ \/ wonL(lboard) # NoSymbol
     \/ childrenL(lboard, playerOfT(minimizer)) = <<>>
  /\ pc' = "tover"
  /\ UNCHANGED <<board, lboard, turn, KILLERS, call, minimizer, frame, CACHE, stack, opt>>

(***************************************************************************)
(* SpecEngines: the exhaustive engines of the three files: those of         *)
(* SpecSearch on the positions of a game, and minimax of ttt.py as play()   *)
(* of ttt.py calls it                                                       *)
(***************************************************************************)
InitEngines == InitSearch \/ InitPlayT

NextEngines ==
  \/ NextSearch
  \/ TttTurn
  \/ TttCall
  \/ TttChoose
  \/ TttOver

SpecEngines == InitEngines /\ [][NextEngines]_vars

\* the scores of a finished game
GameScores == {-10, 0, 10}

\* C16 as claimed: every value an exhaustive engine returns is -10, 0 or
\* +10: simple_minimax and alphabeta of alphabeta.py, alphabeta of killer.py,
\* minimax of ttt.py
C16_ReturnsGameScores ==
  /\ pc \in {"reference", "searched"} =>
       call.mm \in GameScores /\ call.l \in GameScores /\ call.koff \in GameScores
  /\ pc = "searched" => call.k \in GameScores
  /\ pc = "tturn" /\ call.op = "minimax" => call.ret \in GameScores

(***************************************************************************)
(* killer.py: Board.__repr__.  A text is the sequence of its characters.    *)
(***************************************************************************)
\* emit(), with the least significant bit first: cell (2,2) comes out first
emit_LowBitFirst(b) ==
  [k \in 1..9 |->
     LET omask == 2^(k - 1)
         xmask == omask * 2^9
     IN  IF BitAnd(b, omask) # 0 THEN "O"
         ELSE IF BitAnd(b, xmask) # 0 THEN "X"
         ELSE " "]

\* emit() of __repr__: the k-th symbol is read with omask = 1 << (9 - k) and
\* xmask = omask << 9
emit(b) ==
  [k \in 1..9 |->
     LET omask == 2^(9 - k)
         xmask == omask * 2^9
     IN  IF BitAnd(b, omask) # 0 THEN "O"
         ELSE IF BitAnd(b, xmask) # 0 THEN "X"
         ELSE " "]

\* grouper(iterable, 3) on nine items
grouper(s) == [g \in 1..3 |-> SubSeq(s, 3 * g - 2, 3 * g)]

\* sep.join(parts), from the i-th part on
RECURSIVE join(_, _, _)
join(sep, parts, i) ==
  IF i > Len(parts) THEN <<>>
  ELSE IF i = Len(parts) THEN parts[i]
  ELSE parts[i] \o sep \o join(sep, parts, i + 1)

\* separator = "\n---+---+---\n "
separator ==
  <<"\n", "-", "-", "-", "+", "-", "-", "-", "+", "-", "-", "-", "\n", " ">>

\* " " + separator.join(" | ".join(g) for g in grouper(emit(), 3))
repr(b) ==
  LET groups == grouper(emit(b))
      rows   == [g \in 1..3 |->
                   join(<<" ", "|", " ">>, [j \in 1..3 |-> <<groups[g][j]>>], 1)]
  IN  <<" ">> \o join(separator, rows, 1)

\* the nine cell symbols of a rendered board, row by row: a row of text is a
\* blank and "a | b | c", ten characters, and the thirteen characters of the
\* separator before its blank lie between two rows
symbolsOf(text) ==
  [k \in 1..9 |-> text[23 * ((k - 1) \div 3) + 4 * ((k - 1) % 3) + 2]]

\* the board of nine cell symbols, each occupied cell encoded by Board.mask
RECURSIVE encode(_, _)
encode(symbols, k) ==
  IF k > Len(symbols) THEN 0
  ELSE LET row == (k - 1) \div 3
           col == (k - 1) % 3
           bit == IF symbols[k] = "X" THEN mask(row, col, 1)
                  ELSE IF symbols[k] = "O" THEN mask(row, col, -1)
                  ELSE 0
       IN  BitOr(bit, encode(symbols, k + 1))

(***************************************************************************)
(* SpecRender: __repr__ called on every board whose halves are disjoint:    *)
(* pieces of either side are placed in any order on empty cells             *)
(***************************************************************************)
InitRender ==
  /\ InitSearch
  /\ turn = PLAYERS[2]

\* Board.place(row, col, side) replaces the board, whoever moved last
Put(r, c, side) ==
  /\ pc = "setup"
  /\ place(board, r, c, side) # None
  /\ board' = place(board, r, c, side)
  /\ lboard' = placeL(lboard, r, c, symbol(side))
  /\ UNCHANGED <<pc, turn, KILLERS, call, minimizer, frame, CACHE, stack, opt>>

\* repr(board)
Render ==
  /\ pc = "setup"
  /\ call' = [op |-> "repr", self |-> board, text |-> repr(board)]
  /\ pc' = "rendered"
  /\ UNCHANGED <<board, lboard, turn, KILLERS, minimizer, frame, CACHE, stack, opt>>

NextRender ==
  \/ \E r \in 0..2, c \in 0..2, side \in PlayerSet : Put(r, c, side)
  \/ Render

SpecRender == InitRender /\ [][NextRender]_vars

\* bit i of a board
BitOf(b, i) == (b \div 2^i) % 2

\* C17: the text of a board with disjoint halves carries nine cell symbols,
\* row by row from cell (0,0); a cell shows X iff its maximizer bit is set, O
\* iff its minimizer bit is set, a blank otherwise; encoding the nine symbols
\* with Board.mask gives back the board, hence two distinct boards never
\* render the same
C17_ReprRoundTrips ==
  pc = "rendered" =>
    LET symbols == symbolsOf(call.text)
    IN  /\ Len(call.text) = 56
        /\ \A r \in 0..2, c \in 0..2 :
             LET s == symbols[3 * r + c + 1]
             IN  /\ s \in {"X", "O", " "}
                 /\ s = "X" <=> BitOf(board, BitIndex(r, c, 1)) = 1
                 /\ s = "O" <=> BitOf(board, BitIndex(r, c, -1)) = 1
                 /\ s = Cell(r, c)
        /\ encode(symbols, 1) = board

\* C17 witness: a rendered board with X in cell (0,0), O in cell (2,2), an
\* empty cell between, whose text encodes back to it
C17_Witness_MixedBoard ==
  /\ pc = "rendered"
  /\ Cell(0, 0) = "X" /\ Cell(2, 2) = "O" /\ Cell(1, 1) = " " /\ Cell(0, 1) = "O"
  /\ call.text[2] = "X" /\ call.text[6] = "O" /\ call.text[Len(call.text)] = "O"
  /\ encode(symbolsOf(call.text), 1) = board

(***************************************************************************)
(* Calls outside the contract: a side that is not in PLAYERS, a row or a    *)
(* column outside range(3).  Raise stands for an exception leaving the call *)
(***************************************************************************)
\* an exception leaving a call of alphabeta.py, whose results are lists
RaiseL == <<"raise">>

\* `assert player in PLAYERS`
assertPlayer(player) == IF player \in PlayerSet THEN None ELSE Raise

\* Board.mask(row, col, who) for any integers: `1 << offset` raises
\* ValueError on a negative offset
maskC(row, col, who) ==
  LET offset == 3 * (2 - row) + (2 - col) + (IF who = 1 THEN 9 ELSE 0)
  IN  IF offset < 0 THEN Raise ELSE 2^offset

\* Board.check(row, col, player) of killer.py for any integers
checkC(b, row, col, player) ==
  IF assertPlayer(player) = Raise THEN Raise
  ELSE LET m         == maskC(row, col, player)
           othermask == maskC(row, col, -player)
       IN  IF m = Raise \/ othermask = Raise THEN Raise
           ELSE IF BitAnd(BitOr(m, othermask), b) # 0 THEN None
           ELSE m

\* Board.place(row, col, player) of killer.py for any integers
placeC(b, row, col, player) ==
  LET m == checkC(b, row, col, player)
  IN  IF m = Raise THEN Raise
      ELSE IF m = None THEN None
      ELSE BitOr(b, m)

\* Board.place(row, col, what) of mcts.py for any integers
placeMctsC(b, row, col, what) ==
  IF assertPlayer(what) = Raise THEN Raise
  ELSE LET m         == maskC(row, col, what)
           checkmask == maskC(row, col, -what)
       IN  IF m = Raise \/ checkmask = Raise THEN Raise
           ELSE IF BitAnd(BitOr(m, checkmask), b) # 0 THEN None
           ELSE BitOr(b, m)

\* Board.place(row, col, player) of alphabeta.py for any integers and any
\* symbol: a list of three takes the indices -3..2, a negative one counting
\* from the end, and raises IndexError on the others
placeLC(b, row, col, player) ==
  IF row \notin -3..2 \/ col \notin -3..2 THEN RaiseL
  ELSE LET r == (row % 3) + 1
           c == (col % 3) + 1
       IN  IF b[r][c] = " " THEN [b EXCEPT ![r][c] = player] ELSE NoBoard

\* the symbol handed to alphabeta.py for a side: X, O, or one that is neither
symbolC(side) == IF side = 1 THEN "X" ELSE IF side = -1 THEN "O" ELSE "Z"

\* how far outside range(3) the rows and columns tried lie
MaxOutOfRange == 1
Coordinates == (0 - MaxOutOfRange)..(2 + MaxOutOfRange)
\* the sides tried: the two of PLAYERS and one that is neither
Sides == {-1, 0, 1}

\* the head of a search up to its assert: simple_minimax of killer.py looks
\* the key up in CACHE first, alphabeta of killer.py when its switch is on
searchHead(fn, b, player) ==
  IF /\ fn = "simple_minimax" \/ (fn = "alphabeta" /\ opt.cache)
     /\ InCache(CACHE, b, player)
    THEN CACHE[<<b, player>>]
    ELSE assertPlayer(player)

(***************************************************************************)
(* SpecContract: Board.place and the searches called outside their          *)
(* contract on the positions of a game                                      *)
(***************************************************************************)
InitContract ==
  /\ InitSearch
  /\ turn = PLAYERS[2]

ContractMove(r, c) == Move(r, c)

\* Board.place(r, c, side) of killer.py (ret), mcts.py (retM) and
\* alphabeta.py (retL) with an argument outside the contract
CallPlaceOutside(r, c, side) ==
  /\ pc = "setup"
  /\ r \notin 0..2 \/ c \notin 0..2 \/ side \notin PlayerSet
  /\ call' = [op |-> "place", row |-> r, col |-> c, player |-> side,
              ret |-> placeC(board, r, c, side),
              retM |-> placeMctsC(board, r, c, side),
              retL |-> placeLC(lboard, r, c, symbolC(side)),
              cache0 |-> CACHE, killers0 |-> KILLERS]
  /\ pc' = "violated"
  /\ UNCHANGED <<board, lboard, turn, KILLERS, minimizer, frame, CACHE, stack, opt>>

\* a search (alphabeta and simple_minimax of killer.py and alphabeta.py,
\* mcts of mcts.py) called with a side that is not in PLAYERS: every one
\* stops at its assert, before it reads or writes KILLERS and before any
\* store into CACHE
CallSearchOutside(fn, side) ==
  /\ pc = "setup"
  /\ side \notin PlayerSet
  /\ call' = [op |-> fn, row |-> None, col |-> None, player |-> side,
              ret |-> searchHead(fn, board, side),
              retM |-> assertPlayer(side),
              retL |-> IF assertPlayer(side) = Raise THEN RaiseL ELSE NoBoard,
              cache0 |-> CACHE, killers0 |-> KILLERS]
  /\ pc' = "violated"
  /\ UNCHANGED <<board, lboard, turn, KILLERS, minimizer, frame, CACHE, stack, opt>>

NextContract ==
  \/ \E r \in 0..2, c \in 0..2 : ContractMove(r, c)
  \/ \E r \in Coordinates, c \in Coordinates, side \in Sides : CallPlaceOutside(r, c, side)
  \/ \E fn \in {"alphabeta", "simple_minimax"}, side \in Sides : CallSearchOutside(fn, side)

SpecContract == InitContract /\ [][NextContract]_vars

\* C18 as claimed: a call outside the contract (a side not in PLAYERS for a
\* search or for Board.place, a row or column outside {0,1,2} for
\* Board.place) raises in every file, returns neither a score nor a board,
\* and leaves CACHE and KILLERS as they were
C18_ViolationsRaise ==
  pc = "violated" =>
    /\ call.ret = Raise /\ call.retM = Raise /\ call.retL = RaiseL
    /\ CACHE = call.cache0 /\ KILLERS = call.killers0

(***************************************************************************)
(* alphabeta.py: play()                                                     *)
(***************************************************************************)
\* PLAYERS[flag] of alphabeta.py
playerOfL(flag) == PLAYERSL[IF flag THEN 2 ELSE 1]

\* One turn of play() of alphabeta.py: every candidate scored by
\* minimax = alphabeta for the opponent, the list shuffled, and the first of
\* the greatest (X) or least (O) score taken
PlayL ==
  /\ pc = "lplay"
  /\ wonL(lboard) = NoSymbol
  /\ LET player     == playerOfL(minimizer)
         opponent   == playerOfL(~minimizer)
         candidates == childrenL(lboard, player)
     IN  /\ candidates # <<>>
         /\ \E scores \in {[i \in 1..Len(candidates) |->
                              alphabetaL(candidates[i], opponent, -Inf, Inf, FALSE)]} :
              \E i \in 1..Len(candidates) :
                /\ \A j \in 1..Len(candidates) :
                     IF player = "X" THEN scores[i] >= scores[j]
                     ELSE scores[i] <= scores[j]
                /\ lboard' = candidates[i]
  /\ minimizer' = ~minimizer
  /\ UNCHANGED <<pc, board, turn, KILLERS, call, frame, CACHE, stack, opt>>

\* A variant of the end of the loop that can leave it on any board
PlayLOver_Anywhere ==
  /\ pc = "lplay"
  /\ pc' = "lover"
  /\ UNCHANGED <<board, lboard, turn, KILLERS, call, minimizer, frame, CACHE, stack, opt>>

\* the loop ends: game.won(), or no candidate left
PlayLOver ==
  /\ pc = "lplay"
  /\ \/ wonL(lboard) # NoSymbol
     \/ childrenL(lboard, playerOfL(minimizer)) = <<>>
  /\ pc' = "lover"
  /\ UNCHANGED <<board, lboard, turn, KILLERS, call, minimizer, frame, CACHE, stack, opt>>

InitPlayL ==
  /\ pc = "lplay"
  /\ board = 0
  /\ lboard = EmptyL
  /\ turn = PLAYERS[2]
  /\ KILLERS = <<>>
  /\ call = NoCall
  /\ minimizer = TRUE
  /\ frame = NoFrame
  /\ CACHE = EmptyCache
  /\ stack = <<>>
  /\ opt = SourceOpt

(***************************************************************************)
(* SpecLoop: the turn loops of play() of killer.py, alphabeta.py and        *)
(* mcts.py, one turn a step.  A turn is taken once its searches have        *)
(* returned: the exhaustive searches recurse on boards with one more piece, *)
(* and mcts runs N playouts, each of which ends unless random.choice draws  *)
(* occupied cells for ever.  A loop that can take a turn or leave does so.  *)
(***************************************************************************)
InitLoop == InitPlay \/ InitPlayL \/ InitMcts

\* play() has left its while loop
LoopOver == pc \in {"kover", "lover", "over"}

NextLoop ==
  \/ PlayKiller
  \/ PlayKillerOver
  \/ PlayL
  \/ PlayLOver
  \/ PlayMcts
  \/ PlayMctsOver

\* Weak fairness of the loop, WF_vars(NextLoop), written out.  NextLoop
\* changes the state and is enabled exactly while the loop has not been left:
\* on a board with a winner or no empty cell the loop can be left, on any
\* other board the scored list is not empty and has a greatest and a least
\* score.  So "NextLoop is disabled infinitely often" is "the loop has been
\* left", and the formula spares evaluating ENABLED of a whole search.
LoopFairness == []<>LoopOver \/ []<><<NextLoop>>_vars

SpecLoop == InitLoop /\ [][NextLoop]_vars /\ LoopFairness

\* what the claim says of the game, read off the board of the running file
OnLists == pc \in {"lplay", "lover"}
LoopPieces == IF OnLists THEN 9 - spacesL(lboard) ELSE 9 - spaces(board)
LoopTerminal ==
  IF OnLists THEN wonL(lboard) # NoSymbol \/ spacesL(lboard) = 0
  ELSE won(board) # None \/ spaces(board) = 0
TurnTaken == board' # board \/ lboard' # lboard
\* the board after the step is the board before it with one empty cell
\* filled by the side to move: the minimizer (O, -1) iff the flag is set
OneMorePiece ==
  IF OnLists
    THEN \E r \in 1..3, c \in 1..3 :
           /\ lboard[r][c] = " "
           /\ lboard' = [lboard EXCEPT ![r][c] = IF minimizer THEN "O" ELSE "X"]
    ELSE \E r \in 0..2, c \in 0..2 :
           /\ EmptyCell(board, r, c)
           /\ board' = board + 2^BitIndex(r, c, IF minimizer THEN -1 ELSE 1)

\* C19: play() ends, after at most nine moves: the number of pieces is the
\* number of turns taken and never exceeds nine, the minimizer moves first
\* and the sides alternate, every turn fills one empty cell of a board
\* without winner with a piece of the side to move, and the loop is left
\* only on a board with a winner or without an empty cell
C19_PlayTerminates ==
  /\ [](/\ LoopPieces <= 9
        /\ minimizer <=> (LoopPieces % 2 = 0)
        /\ LoopOver => LoopTerminal)
  /\ [][/\ TurnTaken => /\ ~LoopOver /\ ~LoopOver'
                        /\ ~LoopTerminal
                        /\ OneMorePiece
                        /\ minimizer' = ~minimizer
        /\ (LoopOver' /\ ~LoopOver) => (LoopTerminal /\ ~TurnTaken)]_vars
  /\ <>LoopOver

\* C19 witness: a game of alphabeta.py that ended in a tie after nine moves,
\* the minimizer having moved first and last
C19_Witness_NineMoves ==
  /\ pc = "lover"
  /\ spacesL(lboard) = 0
  /\ wonL(lboard) = NoSymbol
  /\ ~minimizer
  /\ Cardinality({rc \in (1..3) \X (1..3) : lboard[rc[1]][rc[2]] = "O"}) = 5

(***************************************************************************)
(* SpecRollout: the runs of SpecMcts under fairness of the playout loop.    *)
(* random.choice draws a cell at every pass of `while step.spaces()`; a     *)
(* draw of an occupied cell changes nothing, so a loop that draws occupied  *)
(* cells for ever is a run that stutters for ever.  Weak fairness of the    *)
(* passes that place a piece, and of leaving the loop on a full board, is   *)
(* the assumption that this does not happen.                                *)
(***************************************************************************)
\* some pass of the loop, whatever cell is drawn
McPass == \E r \in 0..2, c \in 0..2 : McDraw(r, c)

InitRollout == InitMcts

NextRollout ==
  \/ PlayMcts
  \/ PlayMctsOver
  \/ \E r \in 0..2, c \in 0..2, side \in PlayerSet : CallMcts(r, c, side)
  \/ McPass
  \/ McFull
  \/ McTally

SpecRollout ==
  InitRollout /\ [][NextRollout]_vars /\ WF_vars(McPass) /\ WF_vars(McFull)

\* a playout is inside `while step.spaces()`; it has left the loop
InPlayout == pc = "mcts" /\ frame.at = "while"
PlayoutDone == pc = "mcts" /\ frame.at = "tally"

\* C21: every playout of mcts runs to completion.  Inside the loop a draw of
\* an occupied cell is refused by place, so the playout board and the side
\* to move stay as they are; every pass that changes the playout fills one
\* empty cell with a piece of the side to move and flips that side; the loop
\* is left only on a board with a winner or without an empty cell; and,
\* draws not hitting occupied cells for ever, every playout leaves the loop
C21_PlayoutCompletes ==
  /\ [](InPlayout =>
          \A r \in 0..2, c \in 0..2 :
            ~EmptyCell(frame.step, r, c) =>
              placeMcts(frame.step, r, c, frame.who) = None)
  /\ [](PlayoutDone => (won(frame.step) # None \/ spaces(frame.step) = 0))
  /\ [][InPlayout =>
          \/ frame' = frame
          \/ /\ frame'.step = frame.step /\ frame'.who = frame.who
             /\ spaces(frame.step) = 0 /\ frame'.at = "tally"
          \/ /\ \E r \in 0..2, c \in 0..2 :
                  /\ EmptyCell(frame.step, r, c)
                  /\ frame'.step = frame.step + 2^BitIndex(r, c, frame.who)
             /\ frame'.who = -frame.who
             /\ spaces(frame'.step) = spaces(frame.step) - 1]_vars
  /\ InPlayout ~> PlayoutDone

\* C21 witness: a playout that left the loop on a full board without winner,
\* four pieces after the board mcts was called on
C21_Witness_PlayedToFull ==
  /\ PlayoutDone
  /\ spaces(frame.step) = 0
  /\ won(frame.step) = None
  /\ spaces(frame.board) = 4
  /\ frame.who = frame.player

(***************************************************************************)
(* SpecWindow: alphabeta of killer.py and of alphabeta.py called with every *)
(* window alpha < beta on the positions of a game, for the side to move     *)
(* (either side, by the number of pieces), KILLERS holding any short list   *)
(* when the call of killer.py starts                                        *)
(***************************************************************************)
\* the empty cells a position searched with a window may have
MaxWindowSpaces == 3

\* the bounds a window can have: the infinities of the defaults and the
\* scores a call passes down after max(alpha, value) or min(beta, value)
WindowBounds == {-Inf, -10, 0, 10, Inf}

\* the minimizer moves first, as in play()
InitWindow ==
  /\ InitSearch
  /\ turn = PLAYERS[2]

WindowMove(r, c) == Move(r, c)

\* alphabeta(board, side, alpha, beta) of killer.py (k) and of alphabeta.py
\* (l), with simple_minimax of alphabeta.py on the same position (mm)
CallWindow(side, alpha, beta, K0) ==
  /\ pc = "setup"
  /\ side = turn
  /\ spaces(board) <= MaxWindowSpaces
  /\ alpha < beta
  /\ \E k \in {alphabetaK(board, side, alpha, beta, K0, SourceOpt)} :
         /\ call' = [op |-> "alphabeta", player |-> side, killers0 |-> K0,
                     alpha |-> alpha, beta |-> beta,
                     k |-> k.value, raised |-> k.raised,
                     l |-> alphabetaL(lboard, symbol(side), alpha, beta, FALSE),
                     mm |-> simple_minimaxL(lboard, symbol(side))]
         /\ KILLERS' = k.killers
  /\ pc' = "windowed"
  /\ UNCHANGED <<board, lboard, turn, minimizer, frame, CACHE, stack, opt>>

NextWindow ==
  \/ \E r \in 0..2, c \in 0..2 : WindowMove(r, c)
  \/ \E side \in PlayerSet, alpha \in WindowBounds, beta \in WindowBounds,
        K0 \in KillerInputs : CallWindow(side, alpha, beta, K0)

SpecWindow == InitWindow /\ [][NextWindow]_vars

\* what the claim says of a returned value r, the window and the minimax
\* value v of the position
WindowBound(r, alpha, beta, v) ==
  /\ (alpha < r /\ r < beta) => r = v
  /\ r <= alpha => v <= r
  /\ r >= beta => v >= r
  /\ (alpha < v /\ v < beta) => r = v

\* C22: the value r that alphabeta(board, side, alpha, beta) returns, in
\* either file, is the minimax value v of the position when it lies inside
\* the window, an upper bound of v when r <= alpha, a lower bound of v when
\* r >= beta; so r = v whenever v lies inside the window
C22_WindowBoundsMinimax ==
  pc = "windowed" =>
    /\ ~call.raised
    /\ call.mm = Minimax(board, call.player)
    /\ WindowBound(call.k, call.alpha, call.beta, call.mm)
    /\ WindowBound(call.l, call.alpha, call.beta, call.mm)

\* C22 witness: a call with a narrowed window that returned a value other
\* than the minimax value of its position, on the side of the window where
\* the claim allows it
C22_Witness_InexactOutsideWindow ==
  /\ pc = "windowed"
  /\ call.alpha # -Inf /\ call.beta # Inf
  /\ call.k # call.mm
  /\ call.l # call.mm
  /\ call.k <= call.alpha
  /\ call.mm < call.k

(***************************************************************************)
(* SpecSelfPlay: the turn loops of play() of killer.py and of alphabeta.py, *)
(* the two drivers of the alpha-beta engine, one turn a step, under the     *)
(* fairness of SpecLoop                                                     *)
(***************************************************************************)
InitSelfPlay == InitPlay \/ InitPlayL

NextSelfPlay ==
  \/ PlayKiller
  \/ PlayKillerOver
  \/ PlayL
  \/ PlayLOver

\* WF_vars(NextSelfPlay), written out as LoopFairness is
SelfPlayFairness == []<>LoopOver \/ []<><<NextSelfPlay>>_vars

SpecSelfPlay == InitSelfPlay /\ [][NextSelfPlay]_vars /\ SelfPlayFairness

\* the game board of the running file has a complete line; it is full
GameHasWinner == IF OnLists THEN wonL(lboard) # NoSymbol ELSE won(board) # None
GameIsFull == IF OnLists THEN spacesL(lboard) = 0 ELSE spaces(board) = 0

\* C23: self-play of the alpha-beta engine always ends tied: whatever the
\* shuffle picks among the candidates of the best score, no board of the
\* turn loop has a winner, the loop is left on a full board only, and the
\* loop is left
C23_SelfPlayTies ==
  /\ [](~GameHasWinner)
  /\ [](LoopOver => GameIsFull)
  /\ <>(LoopOver /\ GameIsFull /\ ~GameHasWinner)

\* C23 witness: a game of killer.py left on a full board without a line,
\* the maximizer holding the centre
C23_Witness_KillerTie ==
  /\ pc = "kover"
  /\ spaces(board) = 0
  /\ won(board) = None
  /\ BitTest(board, BitIndex(1, 1, 1))

(***************************************************************************)
(* SpecRuns: the runs of mcts.py and of killer.py side by side: the turn    *)
(* loops of both play() functions, the playouts of mcts, and the calls of   *)
(* alphabeta followed one by one, KILLERS changing as the code changes it   *)
(***************************************************************************)
InitRuns == InitMcts \/ InitSteps

NextRuns == NextMcts \/ NextSteps

SpecRuns == InitRuns /\ [][NextRuns]_vars

\* the boards of the children of the calls in progress
ChildBoards ==
  UNION { {stack[i].children[j].child : j \in 1..Len(stack[i].children)}
          : i \in 1..Len(stack) }

\* the board values a state of a run holds: the game; during a call of mcts
\* its argument and the board of the playout; during a turn of killer.py the
\* boards to score, the board of every call of alphabeta in progress and the
\* boards of its children
BoardValues ==
  {board}
    \cup (IF pc = "mcts" THEN {frame.board, frame.step} ELSE {})
    \cup (IF pc \in {"splay", "search"} /\ frame.at = "candidates"
            THEN {frame.candidates[j] : j \in 1..Len(frame.candidates)}
            ELSE {})
    \cup {stack[i].board : i \in 1..Len(stack)}
    \cup ChildBoards

\* side holds every cell of some line of the board value v
HalfHolds(v, side) ==
  \E ln \in Lines : \A rc \in ln : BitTest(v, BitIndex(rc[1], rc[2], side))

\* C8: in every board value of a run the two halves share no position and
\* no bit above bit 17 is set
C8_HalvesDisjoint ==
  \A v \in BoardValues :
    /\ v >= 0 /\ v < 2^18
    /\ \A i \in 0..8 : ~(BitTest(v, i) /\ BitTest(v, i + 9))

\* C8 witness: the recursion of alphabeta has filled the board by raw masks
C8_Witness_FullSearchNode ==
  /\ pc = "search"
  /\ Len(stack) >= 2
  /\ spaces(top.board) = 0
  /\ \A i \in 0..8 : BitTest(top.board, i) # BitTest(top.board, i + 9)

\* C9 as claimed: in every board value of a run at most one side holds a
\* line, and won() is None when neither does
C9_AtMostOneWinner ==
  \A v \in BoardValues :
    /\ ~(HalfHolds(v, 1) /\ HalfHolds(v, -1))
    /\ (~HalfHolds(v, 1) /\ ~HalfHolds(v, -1)) => won(v) = None

====
